---- MODULE Spec2Model ----
(***************************************************************************)
(* Bug tracker REST API: the validation utilities                          *)
(* (server/src/utils/validation.js), the /api/bugs route handlers          *)
(* (server/src/routes/bugs.js) and the Bug collection they drive.          *)
(***************************************************************************)
EXTENDS Integers, Sequences, FiniteSets, TLC

\* ------------------------------------------------------------------------
\* Bounds of the model
\* ------------------------------------------------------------------------
MaxBugs == 2     \* documents the collection ever creates (ObjectIds issued)
MaxClock == 1    \* largest value of the server clock
MaxUpdates == 1  \* updates the collection ever applies

\* ------------------------------------------------------------------------
\* JavaScript values.  A value is a record [t, v]: t is the kind, v the
\* payload (a sequence of one-character strings for text, a sequence of
\* values for an array, a one-element sequence for numbers, booleans, dates).
\* ------------------------------------------------------------------------
Str(s) == [t |-> "string", v |-> s]
Num(n) == [t |-> "number", v |-> <<n>>]
Bool(b) == [t |-> "boolean", v |-> <<b>>]
Arr(a) == [t |-> "array", v |-> a]
DateV(n) == [t |-> "date", v |-> <<n>>]
Null == [t |-> "null", v |-> <<>>]
Undefined == [t |-> "undefined", v |-> <<>>]

\* typeof x
TypeOf(x) == IF x.t \in {"array", "null", "date"} THEN "object" ELSE x.t

\* ToBoolean(x): the falsy values are undefined, null, false, 0 and ""
Truthy(x) ==
    CASE x.t = "undefined" -> FALSE
      [] x.t = "null" -> FALSE
      [] x.t = "boolean" -> x.v[1]
      [] x.t = "number" -> x.v[1] # 0
      [] x.t = "string" -> Len(x.v) > 0
      [] OTHER -> TRUE

\* obj[key]: undefined when the key is absent
Get(obj, key) == IF key \in DOMAIN obj THEN obj[key] ELSE Undefined

\* { ...obj, key: val }
Put(obj, key, val) ==
    [k \in DOMAIN obj \cup {key} |-> IF k = key THEN val ELSE obj[k]]

\* { ...a, ...b }
Spread(a, b) ==
    [k \in DOMAIN a \cup DOMAIN b |-> IF k \in DOMAIN b THEN b[k] ELSE a[k]]

\* ------------------------------------------------------------------------
\* Text
\* ------------------------------------------------------------------------
WhiteSpace == {" ", "\t", "\n"}

Rep(c, n) == [i \in 1..n |-> c]

\* Index of the first character at or after i that is not white space
\* (Len(s) + 1 when there is none)
RECURSIVE FirstKept(_, _)
FirstKept(s, i) ==
    IF i > Len(s) \/ s[i] \notin WhiteSpace THEN i ELSE FirstKept(s, i + 1)

\* Index of the last character at or before i that is not white space
\* (0 when there is none)
RECURSIVE LastKept(_, _)
LastKept(s, i) ==
    IF i < 1 \/ s[i] \notin WhiteSpace THEN i ELSE LastKept(s, i - 1)

\* Mutant: at most one character of white space is removed from each end
trim_OneEachEnd(s) ==
    LET first == IF s # <<>> /\ s[1] \in WhiteSpace THEN 2 ELSE 1
        last == IF Len(s) >= first /\ s[Len(s)] \in WhiteSpace THEN Len(s) - 1 ELSE Len(s)
    IN  SubSeq(s, first, last)

\* String.prototype.trim
trim(s) == SubSeq(s, FirstKept(s, 1), LastKept(s, Len(s)))

\* ------------------------------------------------------------------------
\* validation.js
\* ------------------------------------------------------------------------
MaxTitleLen == 100
MaxDescriptionLen == 1000

validStatuses == <<Str(<<"o","p","e","n">>),
                   Str(<<"i","n","-","p","r","o","g","r","e","s","s">>),
                   Str(<<"r","e","s","o","l","v","e","d">>),
                   Str(<<"c","l","o","s","e","d">>)>>

validPriorities == <<Str(<<"l","o","w">>),
                     Str(<<"m","e","d","i","u","m">>),
                     Str(<<"h","i","g","h">>),
                     Str(<<"c","r","i","t","i","c","a","l">>)>>

\* Array.prototype.includes
Includes(a, x) == \E i \in 1..Len(a) : a[i] = x

\* Mutant: the empty text is tested before the falsy value
TitleErrors_EmptyFirst(bugData) ==
    LET title == Get(bugData, "title")
    IN  IF TypeOf(title) = "string" /\ Len(trim(title.v)) = 0
          THEN <<"Title cannot be empty">>
        ELSE IF ~Truthy(title) \/ TypeOf(title) # "string"
          THEN <<"Title is required and must be a string">>
        ELSE IF Len(title.v) > MaxTitleLen
          THEN <<"Title cannot exceed 100 characters">>
        ELSE <<>>

TitleErrors(bugData) ==
    LET title == Get(bugData, "title")
    IN  IF ~Truthy(title) \/ TypeOf(title) # "string"
          THEN <<"Title is required and must be a string">>
        ELSE IF Len(trim(title.v)) = 0
          THEN <<"Title cannot be empty">>
        ELSE IF Len(title.v) > MaxTitleLen
          THEN <<"Title cannot exceed 100 characters">>
        ELSE <<>>

DescriptionErrors(bugData) ==
    LET description == Get(bugData, "description")
    IN  IF ~Truthy(description) \/ TypeOf(description) # "string"
          THEN <<"Description is required and must be a string">>
        ELSE IF Len(trim(description.v)) = 0
          THEN <<"Description cannot be empty">>
        ELSE IF Len(description.v) > MaxDescriptionLen
          THEN <<"Description cannot exceed 1000 characters">>
        ELSE <<>>

StatusErrors(bugData) ==
    LET status == Get(bugData, "status")
    IN  IF status # Undefined /\ ~Includes(validStatuses, status)
          THEN <<"Status must be one of: open, in-progress, resolved, closed">>
        ELSE <<>>

\* Mutant: the priority is tested as the status is, against undefined
PriorityErrors_NotUndefined(bugData) ==
    LET priority == Get(bugData, "priority")
    IN  IF priority # Undefined /\ ~Includes(validPriorities, priority)
          THEN <<"Priority must be one of: low, medium, high, critical">>
        ELSE <<>>

PriorityErrors(bugData) ==
    LET priority == Get(bugData, "priority")
    IN  IF Truthy(priority) /\ ~Includes(validPriorities, priority)
          THEN <<"Priority must be one of: low, medium, high, critical">>
        ELSE <<>>

ReporterErrors(bugData) ==
    LET reporter == Get(bugData, "reporter")
    IN  IF ~Truthy(reporter) \/ TypeOf(reporter) # "string"
          THEN <<"Reporter is required and must be a string">>
        ELSE IF Len(trim(reporter.v)) = 0
          THEN <<"Reporter cannot be empty">>
        ELSE <<>>

AssigneeErrors(bugData) ==
    LET assignee == Get(bugData, "assignee")
    IN  IF Truthy(assignee) /\ TypeOf(assignee) # "string"
          THEN <<"Assignee must be a string">>
        ELSE <<>>

TagError(index) == "Tag at index " \o ToString(index) \o " must be a string"

\* bugData.tags.forEach((tag, index) => ...): index is 0-based
RECURSIVE TagElementErrors(_, _)
TagElementErrors(tags, index) ==
    IF index >= Len(tags) THEN <<>>
    ELSE (IF TypeOf(tags[index + 1]) # "string"
            THEN <<TagError(index)>> ELSE <<>>)
         \o TagElementErrors(tags, index + 1)

TagsErrors(bugData) ==
    LET tags == Get(bugData, "tags")
    IN  IF Truthy(tags)
          THEN IF tags.t # "array"
                 THEN <<"Tags must be an array">>
               ELSE TagElementErrors(tags.v, 0)
        ELSE <<>>

\* Mutant: the reporter is checked before the status
validateBugData_ReporterFirst(bugData) ==
    LET errors == TitleErrors(bugData) \o DescriptionErrors(bugData)
                  \o ReporterErrors(bugData) \o StatusErrors(bugData)
                  \o PriorityErrors(bugData) \o AssigneeErrors(bugData)
                  \o TagsErrors(bugData)
    IN  [isValid |-> Len(errors) = 0, errors |-> errors]

validateBugData(bugData) ==
    LET errors == TitleErrors(bugData) \o DescriptionErrors(bugData)
                  \o StatusErrors(bugData) \o PriorityErrors(bugData)
                  \o ReporterErrors(bugData) \o AssigneeErrors(bugData)
                  \o TagsErrors(bugData)
    IN  [isValid |-> Len(errors) = 0, errors |-> errors]

TrimFields == <<"title", "description", "reporter", "assignee">>

\* Mutant: the assignee is left out of the fields that are trimmed
RECURSIVE TrimEach_ThreeFields(_, _)
TrimEach_ThreeFields(obj, i) ==
    IF i > Len(TrimFields) - 1 THEN obj
    ELSE LET field == TrimFields[i]
             val == Get(obj, field)
         IN  IF Truthy(val) /\ TypeOf(val) = "string"
               THEN TrimEach_ThreeFields(Put(obj, field, Str(trim(val.v))), i + 1)
             ELSE TrimEach_ThreeFields(obj, i + 1)

RECURSIVE TrimEach(_, _)
TrimEach(obj, i) ==
    IF i > Len(TrimFields) THEN obj
    ELSE LET field == TrimFields[i]
             val == Get(obj, field)
         IN  IF Truthy(val) /\ TypeOf(val) = "string"
               THEN TrimEach(Put(obj, field, Str(trim(val.v))), i + 1)
             ELSE TrimEach(obj, i + 1)

\* .filter(tag => typeof tag === 'string')
RECURSIVE FilterStrings(_)
FilterStrings(tags) ==
    IF tags = <<>> THEN <<>>
    ELSE (IF TypeOf(Head(tags)) = "string" THEN <<Head(tags)>> ELSE <<>>)
         \o FilterStrings(Tail(tags))

\* .filter(tag => tag.length > 0)
RECURSIVE FilterNonEmpty(_)
FilterNonEmpty(tags) ==
    IF tags = <<>> THEN <<>>
    ELSE (IF Len(Head(tags).v) > 0 THEN <<Head(tags)>> ELSE <<>>)
         \o FilterNonEmpty(Tail(tags))

\* Mutant: the empty tags are dropped before the tags are trimmed
sanitizeTags_FilterBeforeTrim(tags) ==
    LET strings == FilterNonEmpty(FilterStrings(tags))
    IN  [i \in 1..Len(strings) |-> Str(trim(strings[i].v))]

sanitizeTags(tags) ==
    LET strings == FilterStrings(tags)
        trimmed == [i \in 1..Len(strings) |-> Str(trim(strings[i].v))]
    IN  FilterNonEmpty(trimmed)

\* Mutant: the text fields are not trimmed
sanitizeBugData_NoTrim(bugData) ==
    LET tags == Get(bugData, "tags")
    IN  IF Truthy(tags) /\ tags.t = "array"
          THEN Put(bugData, "tags", Arr(sanitizeTags(tags.v)))
        ELSE bugData

sanitizeBugData(bugData) ==
    LET sanitized == TrimEach(bugData, 1)
        tags == Get(sanitized, "tags")
    IN  IF Truthy(tags) /\ tags.t = "array"
          THEN Put(sanitized, "tags", Arr(sanitizeTags(tags.v)))
        ELSE sanitized

\* What the caller's mapping holds after sanitizeBugData(bugData): line 78
\* copies it and lines 83 and 89 assign to the copy (filter and map return
\* new arrays)
sanitizeBugDataArgument(bugData) == bugData

HexChars == {"0","1","2","3","4","5","6","7","8","9",
             "a","b","c","d","e","f","A","B","C","D","E","F"}
ObjectIdLen == 24

\* Mutant: only the length is checked
isValidObjectId_LengthOnly(id) == Len(id) = ObjectIdLen

\* Mutant: the pattern is not anchored, /[0-9a-fA-F]{24}/
isValidObjectId_Unanchored(id) ==
    \E start \in 1..Len(id) :
        /\ start + ObjectIdLen - 1 <= Len(id)
        /\ \A i \in start..(start + ObjectIdLen - 1) : id[i] \in HexChars

\* /^[0-9a-fA-F]{24}$/.test(id)
isValidObjectId(id) ==
    /\ Len(id) = ObjectIdLen
    /\ \A i \in 1..Len(id) : id[i] \in HexChars


\* ------------------------------------------------------------------------
\* The Bug collection (models/Bug.js through the object-document mapper)
\* ------------------------------------------------------------------------
Lower(c) ==
    CASE c = "A" -> "a" [] c = "B" -> "b" [] c = "C" -> "c"
      [] c = "D" -> "d" [] c = "E" -> "e" [] c = "F" -> "f"
      [] OTHER -> c

\* An ObjectId is a 12-byte value: its hexadecimal spelling is case-blind
castObjectId(id) == [i \in 1..Len(id) |-> Lower(id[i])]

HexDigit(n) == <<"0","1","2","3","4","5","6","7","8","9",
                 "a","b","c","d","e","f">>[n + 1]

\* The n-th ObjectId the collection issues
ObjectIdOf(n) == Rep("0", ObjectIdLen - 2) \o <<HexDigit(n \div 16), HexDigit(n % 16)>>

DefaultStatus == validStatuses[1]
DefaultPriority == validPriorities[2]

\* new Bug(data).save(): the collection assigns the identifier and the two
\* timestamps and fills in the defaults of status and priority
newBug(data, n, t) ==
    LET defaults == [k \in {"status", "priority"} |->
                        IF k = "status" THEN DefaultStatus ELSE DefaultPriority]
        own == [k \in {"_id", "createdAt", "updatedAt"} |->
                   IF k = "_id" THEN Str(ObjectIdOf(n)) ELSE DateV(t)]
    IN  Spread(Spread(defaults, data), own)

\* Bug.findById(id): the set of matching documents (empty or a singleton)
findById(coll, id) == {b \in coll : b["_id"] = Str(castObjectId(id))}

\* What findByIdAndUpdate writes to the matching document: the fields of
\* the update, the identifier excepted
applyUpdate(doc, update) ==
    LET fields == [k \in DOMAIN update \ {"_id"} |-> update[k]]
    IN  Spread(doc, fields)

\* ------------------------------------------------------------------------
\* routes/bugs.js
\* ------------------------------------------------------------------------
\* No document in the response
NoBug == [k \in {} |-> Undefined]

Response(status, errorText, details, bug, message) ==
    [status |-> status, error |-> errorText, details |-> details,
     bug |-> bug, message |-> message]

InvalidId == Response(400, "Invalid bug ID format", <<>>, NoBug, "")
\* Mutant: the missing document is answered as a success
NotFound_AsOk == Response(200, "", <<>>, NoBug, "")
NotFound == Response(404, "Bug not found", <<>>, NoBug, "")
ValidationFailed(errors) == Response(400, "Validation failed", errors, NoBug, "")
Ok(status, bug) == Response(status, "", <<>>, bug, "")
Deleted == Response(200, "", <<>>, NoBug, "Bug deleted successfully")

\* Mutant: the test of the deleted document is inverted
deleteResponse_Inverted(found) == IF found # {} THEN NotFound ELSE Deleted

\* bugs.js:146-151  if (!deletedBug) 404, else the success message
deleteResponse(found) == IF found = {} THEN NotFound ELSE Deleted

\* Mutant: a single-key body is never validated
needsValidation_MoreThanOneKey(sanitizedData) ==
    Cardinality(DOMAIN sanitizedData) > 1

\* Mutant: the presence of the status key is tested, not its value
needsValidation_KeyAbsent(sanitizedData) ==
    \/ Cardinality(DOMAIN sanitizedData) > 1
    \/ "status" \notin DOMAIN sanitizedData

\* Mutant: the body is never validated before the record is looked up
needsValidation_Never(sanitizedData) == FALSE

\* bugs.js:105  Object.keys(sanitizedData).length > 1 || !sanitizedData.status
needsValidation(sanitizedData) ==
    \/ Cardinality(DOMAIN sanitizedData) > 1
    \/ ~Truthy(Get(sanitizedData, "status"))

\* Mutant: the body is spread after updatedAt, so its updatedAt wins
updateFields_BodyWins(sanitizedData, t) ==
    Spread([k \in {"updatedAt"} |-> DateV(t)], sanitizedData)

\* bugs.js:119  { ...sanitizedData, updatedAt: new Date() }
updateFields(sanitizedData, t) == Put(sanitizedData, "updatedAt", DateV(t))

\* The error a failing operation of the collection throws
StoreError == [name |-> "MongoNetworkError", message |-> "connection refused",
               stack |-> "MongoNetworkError: connection refused at Connection"]

\* Mutant: the handler has no try/catch, so the rejection is unhandled and
\* the process exits without a response
storeFailure_Uncaught(thrown) ==
    [res |-> Response(0, "", <<>>, NoBug, ""), running |-> FALSE]

\* The catch block of each handler (bugs.js:37-40, 59-62, 86-89, 129-132,
\* 152-155): the error is logged and answered with a fixed body
storeFailure(thrown) ==
    [res |-> Response(500, "Internal server error", <<>>, NoBug, ""),
     running |-> TRUE]

\* parseInt of a query parameter: the default (a number) or a text of
\* decimal digits
RECURSIVE DigitsValue(_, _)
DigitsValue(s, acc) ==
    IF s = <<>> THEN acc
    ELSE DigitsValue(Tail(s),
             acc * 10 + (CHOOSE d \in 0..9 : HexDigit(d) = Head(s)))

parseInt(x) == IF x.t = "number" THEN x.v[1] ELSE DigitsValue(x.v, 0)

\* const { status, priority, page = 1, limit = 10 } = req.query
DefaultPage == 1
DefaultLimit == 10
QueryPage(query) == IF "page" \in DOMAIN query THEN query["page"] ELSE Num(DefaultPage)
QueryLimit(query) == IF "limit" \in DOMAIN query THEN query["limit"] ELSE Num(DefaultLimit)

\* bugs.js:12-15  the filter holds status and priority when they are truthy
listFilter(query) ==
    [k \in {x \in {"status", "priority"} : Truthy(Get(query, x))} |-> query[k]]

\* Mutant: the page itself is taken for the number of records to skip
listSkip_PageTimesLimit(query) == parseInt(QueryPage(query)) * parseInt(QueryLimit(query))

\* bugs.js:17
listSkip(query) == (parseInt(QueryPage(query)) - 1) * parseInt(QueryLimit(query))

\* Math.ceil(total / limit)
listPages(total, limit) == (total + limit - 1) \div limit

\* Bug.find(filter) / Bug.countDocuments(filter): the matching documents
matching(coll, filter) == {b \in coll : \A k \in DOMAIN filter : Get(b, k) = filter[k]}

\* .sort({ createdAt: -1 }): the orders of the documents by descending
\* createdAt (documents of equal createdAt come in either order)
sortedByCreatedAtDesc(docs) ==
    {order \in [1..Cardinality(docs) -> docs] :
        /\ \A i, j \in 1..Cardinality(docs) : i # j => order[i] # order[j]
        /\ \A i, j \in 1..Cardinality(docs) :
              i < j => order[i]["createdAt"].v[1] >= order[j]["createdAt"].v[1]}

\* .skip(skip).limit(limit)
skipLimit(order, skip, limit) ==
    SubSeq(order, skip + 1, IF skip + limit < Len(order) THEN skip + limit ELSE Len(order))

\* No list request is between its queries
NoListing == [active |-> FALSE, query |-> [k \in {} |-> Undefined],
              bugs |-> <<>>, seen |-> {}]

\* bugs.js:28-36  res.json({ bugs, pagination: { page, limit, total, pages } })
ListResponse(list, page, limit, total, pages) ==
    [status |-> 200, error |-> "", details |-> <<>>, bug |-> NoBug, message |-> "",
     bugs |-> list,
     pagination |-> [page |-> page, limit |-> limit, total |-> total, pages |-> pages]]

\* ------------------------------------------------------------------------
\* components/BugList.jsx
\* ------------------------------------------------------------------------
UpperLetters == <<"A","B","C","D","E","F","G","H","I","J","K","L","M",
                  "N","O","P","Q","R","S","T","U","V","W","X","Y","Z">>
LowerLetters == <<"a","b","c","d","e","f","g","h","i","j","k","l","m",
                  "n","o","p","q","r","s","t","u","v","w","x","y","z">>

\* String.prototype.toLowerCase
toLowerCase(s) ==
    [i \in 1..Len(s) |->
        IF \E n \in 1..Len(UpperLetters) : UpperLetters[n] = s[i]
          THEN LowerLetters[CHOOSE n \in 1..Len(UpperLetters) : UpperLetters[n] = s[i]]
        ELSE s[i]]

\* String.prototype.includes
includes(s, part) ==
    \E start \in 1..(Len(s) + 1) :
        /\ start + Len(part) - 1 <= Len(s)
        /\ SubSeq(s, start, start + Len(part) - 1) = part

\* useState({ status: '', priority: '', search: '' })
NoFilter == [status |-> Str(<<>>), priority |-> Str(<<>>), search |-> Str(<<>>)]

\* The predicate of the search filter (lines 489-495)
matchesSearch(bug, searchTerm) ==
    \/ includes(toLowerCase(bug["title"].v), searchTerm)
    \/ includes(toLowerCase(bug["description"].v), searchTerm)
    \/ includes(toLowerCase(bug["reporter"].v), searchTerm)
    \/ /\ Truthy(Get(bug, "assignee"))
       /\ includes(toLowerCase(bug["assignee"].v), searchTerm)
    \/ /\ Truthy(Get(bug, "tags"))
       /\ \E i \in 1..Len(bug["tags"].v) :
             includes(toLowerCase(bug["tags"].v[i].v), searchTerm)

\* Mutant: the search term is compared as typed, not lowercased
applyFilter_SearchAsTyped(list, criteria) ==
    LET HasStatus(bug) == bug["status"] = criteria.status
        HasPriority(bug) == bug["priority"] = criteria.priority
        Matches(bug) == matchesSearch(bug, criteria.search.v)
        byStatus == IF Truthy(criteria.status) THEN SelectSeq(list, HasStatus) ELSE list
        byPriority == IF Truthy(criteria.priority)
                        THEN SelectSeq(byStatus, HasPriority) ELSE byStatus
    IN  IF Truthy(criteria.search) THEN SelectSeq(byPriority, Matches) ELSE byPriority

\* The body of the effect (lines 474-497): the list setFilteredBugs is given
applyFilter(list, criteria) ==
    LET HasStatus(bug) == bug["status"] = criteria.status
        HasPriority(bug) == bug["priority"] = criteria.priority
        Matches(bug) == matchesSearch(bug, toLowerCase(criteria.search.v))
        byStatus == IF Truthy(criteria.status) THEN SelectSeq(list, HasStatus) ELSE list
        byPriority == IF Truthy(criteria.priority)
                        THEN SelectSeq(byStatus, HasPriority) ELSE byStatus
    IN  IF Truthy(criteria.search) THEN SelectSeq(byPriority, Matches) ELSE byPriority

\* What the bugs prop holds after the effect: line 474 copies it and filter
\* returns new arrays
bugsAfterEffect(list) == list

\* Mutant: the loading state is tested before the error
BugListView_LoadingFirst(errorValue, loadingValue, filtered, source) ==
    IF Truthy(loadingValue)
      THEN [testid |-> "bug-list-loading", heading |-> "Loading bugs...",
            retry |-> FALSE, items |-> <<>>]
    ELSE IF Truthy(errorValue)
      THEN [testid |-> "bug-list-error", heading |-> "Error Loading Bugs",
            retry |-> TRUE, items |-> <<>>]
    ELSE IF Len(filtered) = 0
      THEN [testid |-> "bug-list-empty",
            heading |-> IF Len(source) = 0 THEN "No bugs reported yet"
                        ELSE "No bugs match your filters",
            retry |-> FALSE, items |-> <<>>]
    ELSE [testid |-> "bug-list", heading |-> "", retry |-> FALSE, items |-> filtered]

\* What BugList returns (lines 518-626): the list state it shows, its
\* heading, whether the Retry button is there, and the bugs it lists
BugListView(errorValue, loadingValue, filtered, source) ==
    IF Truthy(errorValue)
      THEN [testid |-> "bug-list-error", heading |-> "Error Loading Bugs",
            retry |-> TRUE, items |-> <<>>]
    ELSE IF Truthy(loadingValue)
      THEN [testid |-> "bug-list-loading", heading |-> "Loading bugs...",
            retry |-> FALSE, items |-> <<>>]
    ELSE IF Len(filtered) = 0
      THEN [testid |-> "bug-list-empty",
            heading |-> IF Len(source) = 0 THEN "No bugs reported yet"
                        ELSE "No bugs match your filters",
            retry |-> FALSE, items |-> <<>>]
    ELSE [testid |-> "bug-list", heading |-> "", retry |-> FALSE, items |-> filtered]

\* ------------------------------------------------------------------------
\* components/BugForm.jsx
\* ------------------------------------------------------------------------
\* a || b
OrElse(a, b) == IF Truthy(a) THEN a ELSE b

\* initialData?.key
Optional(obj, key) == IF obj = Null THEN Undefined ELSE Get(obj, key)

\* useState({ title: initialData?.title || '', ... }) (lines 738-746)
initialFormData(initialData) ==
    [k \in {"title", "description", "status", "priority", "reporter", "assignee", "tags"} |->
        CASE k = "status" -> OrElse(Optional(initialData, k), validStatuses[1])
          [] k = "priority" -> OrElse(Optional(initialData, k), validPriorities[2])
          [] k = "tags" -> OrElse(Optional(initialData, k), Arr(<<>>))
          [] OTHER -> OrElse(Optional(initialData, k), Str(<<>>))]

\* No error is recorded: useState({})
NoErrors == [k \in {} |-> ""]

\* Mutant: the length of the trimmed text is measured
validateForm_TrimmedLength(formData) ==
    LET titleError ==
            IF trim(formData["title"].v) = <<>> THEN "Title is required"
            ELSE IF Len(trim(formData["title"].v)) > 100
              THEN "Title cannot exceed 100 characters"
            ELSE ""
        descriptionError ==
            IF trim(formData["description"].v) = <<>> THEN "Description is required"
            ELSE IF Len(trim(formData["description"].v)) > 1000
              THEN "Description cannot exceed 1000 characters"
            ELSE ""
        reporterError ==
            IF trim(formData["reporter"].v) = <<>> THEN "Reporter is required" ELSE ""
        all == [k \in {"title", "description", "reporter"} |->
                   CASE k = "title" -> titleError
                     [] k = "description" -> descriptionError
                     [] k = "reporter" -> reporterError]
    IN  [k \in {x \in DOMAIN all : all[x] # ""} |-> all[k]]

\* Mutant: a field is required to be non-empty as typed, not once trimmed
validateForm_Untrimmed(formData) ==
    LET titleError ==
            IF formData["title"].v = <<>> THEN "Title is required"
            ELSE IF Len(formData["title"].v) > 100
              THEN "Title cannot exceed 100 characters"
            ELSE ""
        descriptionError ==
            IF formData["description"].v = <<>> THEN "Description is required"
            ELSE IF Len(formData["description"].v) > 1000
              THEN "Description cannot exceed 1000 characters"
            ELSE ""
        reporterError ==
            IF formData["reporter"].v = <<>> THEN "Reporter is required" ELSE ""
        all == [k \in {"title", "description", "reporter"} |->
                   CASE k = "title" -> titleError
                     [] k = "description" -> descriptionError
                     [] k = "reporter" -> reporterError]
    IN  [k \in {x \in DOMAIN all : all[x] # ""} |-> all[k]]

\* validateForm (lines 791-812): newErrors, with a key for each field that
\* fails; the form is valid when newErrors has no key
validateForm(formData) ==
    LET titleError ==
            IF trim(formData["title"].v) = <<>> THEN "Title is required"
            ELSE IF Len(formData["title"].v) > 100
              THEN "Title cannot exceed 100 characters"
            ELSE ""
        descriptionError ==
            IF trim(formData["description"].v) = <<>> THEN "Description is required"
            ELSE IF Len(formData["description"].v) > 1000
              THEN "Description cannot exceed 1000 characters"
            ELSE ""
        reporterError ==
            IF trim(formData["reporter"].v) = <<>> THEN "Reporter is required" ELSE ""
        all == [k \in {"title", "description", "reporter"} |->
                   CASE k = "title" -> titleError
                     [] k = "description" -> descriptionError
                     [] k = "reporter" -> reporterError]
    IN  [k \in {x \in DOMAIN all : all[x] # ""} |-> all[k]]

\* formData.tags.includes(tag)
hasTag(tags, tag) == \E i \in 1..Len(tags.v) : tags.v[i] = Str(tag)

\* Mutant: the input is appended as typed
addTag_Untrimmed(tags, tagInput) ==
    IF trim(tagInput) # <<>> /\ ~hasTag(tags, trim(tagInput))
      THEN [tags |-> Arr(Append(tags.v, Str(tagInput))), tagInput |-> <<>>]
    ELSE [tags |-> tags, tagInput |-> tagInput]

\* handleAddTag (lines 767-775): the tags and the tag input it leaves
addTag(tags, tagInput) ==
    IF trim(tagInput) # <<>> /\ ~hasTag(tags, trim(tagInput))
      THEN [tags |-> Arr(Append(tags.v, Str(trim(tagInput)))), tagInput |-> <<>>]
    ELSE [tags |-> tags, tagInput |-> tagInput]

\* handleRemoveTag (lines 777-782): prev.tags.filter(tag => tag !== tagToRemove)
removeTag(tags, tagToRemove) ==
    LET Other(tag) == tag # Str(tagToRemove)
    IN  Arr(SelectSeq(tags.v, Other))

\* JSON.parse(JSON.stringify(bugData)): the keys whose value is
\* undefined are left out, a date arrives as a text
viaJSON(bugData) ==
    [k \in {x \in DOMAIN bugData : bugData[x] # Undefined} |->
        IF bugData[k].t = "date" THEN Str(<<ToString(bugData[k].v[1])>>) ELSE bugData[k]]

VARIABLES
    bugs,           \* the Bug collection: a set of documents
    issued,         \* number of ObjectIds the collection has issued
    updates,        \* number of updates the collection has applied
    now,            \* the server clock (new Date())
    req,            \* the last request: method, id (route parameter), body
    res,            \* the response to it
    pre,            \* the collection as it was when the request arrived
    validationRan,  \* whether the handler called validateBugData
    dbCalls,        \* the collection operations the handler called, in order
    deleted,        \* the identifiers findByIdAndDelete has removed
    input,          \* the mapping a direct call of validateBugData or
                    \* sanitizeBugData is given
    result,         \* what validateBugData returned
    sanitized,      \* what sanitizeBugData returned
    token,          \* the text a direct call of isValidObjectId is given
    idValid,        \* what isValidObjectId returned
    called,         \* the utility that was called directly
    listing,        \* the GET /api/bugs request between its two queries
    running,        \* the server process has not exited
    everFailed,     \* an operation of the collection has thrown
    bugsProp,       \* BugList: the bugs it is given (the source list)
    filter,         \* BugList: the filter criteria
    filteredBugs,   \* BugList: the bugs it displays
    isLoading,      \* BugList: the isLoading prop
    errorProp,      \* BugList: the error prop
    view,           \* BugList: what it renders
    resanitized,    \* what sanitizeBugData returned for its own result
    revalidated,    \* what validateBugData returned for that
    initialData,    \* BugForm: the initialData prop (null for a new bug)
    formData,       \* BugForm: the form data
    tagInput,       \* BugForm: the text of the tag input
    errors,         \* BugForm: the error message of each field
    onSubmitCalls,  \* BugForm: the arguments of the calls of onSubmit the
                    \* last event made
    appBugs,        \* App: the state 'bugs', the list the page shows
    loading,        \* App: the state 'loading'
    error,          \* App: the state 'error'
    editingBug,     \* App: the state 'editingBug'
    showForm,       \* App: the state 'showForm'
    pending         \* App: the calls of the API service whose handler is
                    \* waiting (await), each with its request and, once the
                    \* server has answered, its response

vars == <<bugs, issued, updates, now, req, res, pre, validationRan, dbCalls, deleted,
          input, result, sanitized, token, idValid, called, listing,
          running, everFailed, bugsProp, filter, filteredBugs,
          isLoading, errorProp, view, resanitized, revalidated,
          initialData, formData, tagInput, errors, onSubmitCalls,
          appBugs, loading, error, editingBug, showForm, pending>>

\* The variables of the App component
appVars == <<appBugs, loading, error, editingBug, showForm, pending>>

\* The variables of the BugForm component
formVars == <<initialData, formData, tagInput, errors, onSubmitCalls>>

\* The props of BugList other than bugs
propVars == <<isLoading, errorProp>>

\* The variables of a second call of the utilities on a sanitized mapping
againVars == <<resanitized, revalidated>>

\* The variables of the client side that the server leaves alone
restVars == <<propVars, againVars, formVars, appVars>>

\* The variables of a direct call of the validation utilities and of the
\* list request in progress: the handlers of one bug leave them alone
callVars == <<input, result, sanitized, token, idValid, called, listing,
              running, everFailed, bugsProp, filter, filteredBugs, view, restVars>>

\* The variables of the BugList component
clientVars == <<bugsProp, filter, filteredBugs, view, restVars>>

Request(method, id, body) == [method |-> method, id |-> id, body |-> body]

\* ------------------------------------------------------------------------
\* The requests the clients send
\* ------------------------------------------------------------------------
FutureTime == MaxClock + 1

\* An identifier of the right shape that the collection never issues
ForeignId == Rep("F", ObjectIdLen)
\* 23 characters, and 24 characters of which the last is not hexadecimal
ShortId == Rep("0", ObjectIdLen - 1)
BadCharId == Rep("0", ObjectIdLen - 1) \o <<"g">>

IdTokens == {ObjectIdOf(n) : n \in 1..MaxBugs} \cup {ForeignId, ShortId, BadCharId}

\* The fields of a bug a client fills in
BugKeys == {"title", "description", "reporter", "status", "priority",
            "assignee", "tags"}

Keys == BugKeys \cup {"createdAt", "updatedAt", "_id"}

\* Title, description and reporter, each legal once trimmed
Required ==
    [k \in {"title", "description", "reporter"} |->
        CASE k = "title" -> Str(<<" ", "a", "\t">>)
          [] k = "description" -> Str(<<"d", " ">>)
          [] k = "reporter" -> Str(<<"\n", "r">>)]

\* The values a request may carry under each key
Candidates(k) ==
    CASE k = "title" -> {Str(<<" ", " ">>), Str(<<>>), Num(7),
                         Str(Rep("x", MaxTitleLen + 1))}
      [] k = "description" -> {Str(<<>>)}
      [] k = "reporter" -> {Str(<<"\t">>)}
      [] k = "status" -> {validStatuses[4], Str(<<"b","o","g","u","s">>),
                          Str(<<>>), Null}
      [] k = "priority" -> {Str(<<"b","o","g","u","s">>), Str(<<>>)}
      [] k = "assignee" -> {Num(7)}
      [] k = "tags" -> {Str(<<"t">>), Arr(<<Num(7), Str(<<"t", " ">>)>>)}
      [] k = "createdAt" -> {DateV(FutureTime)}
      [] k = "updatedAt" -> {DateV(0)}
      [] k = "_id" -> {Str(ObjectIdOf(1))}

OneKey(k, v) == [x \in {k} |-> v]

\* Every field present and legal once sanitized, with the identifier and the
\* timestamps supplied by the client
Rich ==
    Spread(Required,
        [k \in Keys \ DOMAIN Required |->
            CASE k = "status" -> validStatuses[3]
              [] k = "priority" -> validPriorities[3]
              [] k = "assignee" -> Str(<<" ", "x">>)
              [] k = "tags" -> Arr(<<Str(<<" ", "t", " ">>), Str(<<" ">>),
                                     Str(<<"u">>)>>)
              [] k = "createdAt" -> DateV(FutureTime)
              [] k = "updatedAt" -> DateV(0)
              [] k = "_id" -> Str(ForeignId)])

StatusAndPriority ==
    [k \in {"status", "priority"} |->
        IF k = "status" THEN validStatuses[4] ELSE validPriorities[1]]

SingleKeyBodies ==
    UNION {{OneKey(k, v) : v \in Candidates(k)} : k \in Keys}

OverriddenBodies ==
    UNION {{Spread(Required, OneKey(k, v)) : v \in Candidates(k)} : k \in Keys}

\* {} is the body of a request sent without one
EmptyBody == [k \in {} |-> Undefined]

Bodies ==
    {EmptyBody, Required, Rich, StatusAndPriority}
    \cup SingleKeyBodies \cup OverriddenBodies

\* ------------------------------------------------------------------------
\* The server
\* ------------------------------------------------------------------------
\* No call of validateBugData has returned yet
NotCalled == [isValid |-> FALSE, errors |-> <<"(not called)">>]

NoRequest == Request("NONE", <<>>, EmptyBody)
NoResponse == Response(0, "", <<>>, NoBug, "")

Init ==
    /\ bugs = {}
    /\ issued = 0
    /\ updates = 0
    /\ now = 0
    /\ req = NoRequest
    /\ res = NoResponse
    /\ pre = {}
    /\ validationRan = FALSE
    /\ dbCalls = <<>>
    /\ deleted = {}
    /\ input = EmptyBody
    /\ result = NotCalled
    /\ sanitized = EmptyBody
    /\ token = <<>>
    /\ idValid = FALSE
    /\ called = "none"
    /\ listing = NoListing
    /\ running = TRUE
    /\ everFailed = FALSE
    /\ bugsProp = <<>>
    /\ filter = NoFilter
    /\ filteredBugs = <<>>
    /\ isLoading = Undefined
    /\ errorProp = Undefined
    /\ view = BugListView(Undefined, Undefined, <<>>, <<>>)
    /\ resanitized = EmptyBody
    /\ revalidated = NotCalled
    /\ initialData = Null
    /\ formData = initialFormData(Null)
    /\ tagInput = <<>>
    /\ errors = NoErrors
    /\ onSubmitCalls = <<>>
    /\ appBugs = <<>>
    /\ loading = TRUE
    /\ error = Null
    /\ editingBug = Null
    /\ showForm = FALSE
    /\ pending = {}

\* The server is idle: the last response is sent, no request is in progress.
\* Each handler awaits the collection once, so requests take effect one at
\* a time.
Idle == req = NoRequest

\* Time passes between requests
Tick ==
    /\ Idle
    /\ now < MaxClock
    /\ now' = now + 1
    /\ UNCHANGED <<bugs, issued, updates, req, res, pre, validationRan, dbCalls, deleted>>
    /\ UNCHANGED callVars

\* The response is sent and the server waits for the next request
AwaitRequest ==
    /\ ~Idle
    /\ req' = NoRequest
    /\ res' = NoResponse
    /\ pre' = {}
    /\ validationRan' = FALSE
    /\ dbCalls' = <<>>
    /\ UNCHANGED <<bugs, issued, updates, now, deleted, callVars>>

\* router.get('/:id')
GetBug(id) ==
    /\ Idle
    /\ req' = Request("GET", id, EmptyBody)
    /\ pre' = bugs
    /\ validationRan' = FALSE
    /\ UNCHANGED <<bugs, issued, updates, now, deleted, callVars>>
    /\ IF ~isValidObjectId(id)
         THEN /\ res' = InvalidId
              /\ dbCalls' = <<>>
       ELSE LET found == findById(bugs, id)
            IN  /\ dbCalls' = <<"findById">>
                /\ res' = IF found = {} THEN NotFound
                          ELSE Ok(200, CHOOSE b \in found : TRUE)

\* router.post('/')
PostBug(body) ==
    LET sanitizedData == sanitizeBugData(body)
        validation == validateBugData(sanitizedData)
    IN  /\ Idle
        /\ req' = Request("POST", <<>>, body)
        /\ pre' = bugs
        /\ validationRan' = TRUE
        /\ UNCHANGED <<updates, now, deleted, callVars>>
        /\ IF ~validation.isValid
             THEN /\ res' = ValidationFailed(validation.errors)
                  /\ dbCalls' = <<>>
                  /\ UNCHANGED <<bugs, issued>>
           ELSE /\ issued < MaxBugs
                /\ LET savedBug == newBug(sanitizedData, issued + 1, now)
                   IN  /\ bugs' = bugs \cup {savedBug}
                       /\ issued' = issued + 1
                       /\ dbCalls' = <<"save">>
                       /\ res' = Ok(201, savedBug)

\* router.put('/:id')
PutBug(id, body) ==
    /\ Idle
    /\ req' = Request("PUT", id, body)
    /\ pre' = bugs
    /\ UNCHANGED <<issued, now, deleted, callVars>>
    /\ IF ~isValidObjectId(id)
         THEN /\ res' = InvalidId
              /\ validationRan' = FALSE
              /\ dbCalls' = <<>>
              /\ UNCHANGED <<bugs, updates>>
       ELSE LET sanitizedData == sanitizeBugData(body)
                validation == IF needsValidation(sanitizedData)
                                THEN validateBugData(sanitizedData)
                              ELSE [isValid |-> TRUE, errors |-> <<>>]
            IN  /\ validationRan' = needsValidation(sanitizedData)
                /\ IF ~validation.isValid
                     THEN /\ res' = ValidationFailed(validation.errors)
                          /\ dbCalls' = <<>>
                          /\ UNCHANGED <<bugs, updates>>
                   ELSE LET found == findById(bugs, id)
                        IN  /\ dbCalls' = <<"findByIdAndUpdate">>
                            /\ IF found = {}
                                 THEN /\ res' = NotFound
                                      /\ UNCHANGED <<bugs, updates>>
                               ELSE LET old == CHOOSE b \in found : TRUE
                                        updatedBug == applyUpdate(old,
                                            updateFields(sanitizedData, now))
                                    IN  /\ updates < MaxUpdates
                                        /\ updates' = updates + 1
                                        /\ bugs' = (bugs \ {old}) \cup {updatedBug}
                                        /\ res' = Ok(200, updatedBug)

\* router.delete('/:id')
DeleteBug(id) ==
    /\ Idle
    /\ req' = Request("DELETE", id, EmptyBody)
    /\ pre' = bugs
    /\ validationRan' = FALSE
    /\ UNCHANGED <<issued, updates, now, callVars>>
    /\ IF ~isValidObjectId(id)
         THEN /\ res' = InvalidId
              /\ dbCalls' = <<>>
              /\ UNCHANGED <<bugs, deleted>>
       ELSE LET found == findById(bugs, id)
            IN  /\ dbCalls' = <<"findByIdAndDelete">>
                /\ bugs' = bugs \ found
                /\ deleted' = deleted \cup {b["_id"].v : b \in found}
                /\ res' = deleteResponse(found)

Next ==
    \/ Tick
    \/ AwaitRequest
    \/ \E id \in IdTokens : GetBug(id)
    \/ \E body \in Bodies : PostBug(body)
    \/ \E id \in IdTokens, body \in Bodies : PutBug(id, body)
    \/ \E id \in IdTokens : DeleteBug(id)

Spec == Init /\ [][Next]_vars

\* ------------------------------------------------------------------------
\* GET /api/bugs: the list with filters and pages
\* ------------------------------------------------------------------------
ListRequest(query) ==
    [method |-> "GET /", id |-> <<>>, body |-> EmptyBody, query |-> query]

\* router.get('/'), up to the first query: await Bug.find(filter).sort().skip().limit()
ListBugsFind(query) ==
    /\ Idle
    /\ ~listing.active
    /\ \E order \in sortedByCreatedAtDesc(matching(bugs, listFilter(query))) :
          listing' = [active |-> TRUE, query |-> query,
                      bugs |-> skipLimit(order, listSkip(query), parseInt(QueryLimit(query))),
                      seen |-> bugs]
    /\ UNCHANGED <<bugs, issued, updates, now, req, res, pre, validationRan, dbCalls, deleted>>
    /\ UNCHANGED <<input, result, sanitized, token, idValid, called, running, everFailed>>
    /\ UNCHANGED clientVars

\* router.get('/'), from the second query on: await Bug.countDocuments(filter),
\* then the response
ListBugsCount ==
    /\ Idle
    /\ listing.active
    /\ LET query == listing.query
           limit == parseInt(QueryLimit(query))
           total == Cardinality(matching(bugs, listFilter(query)))
       IN  /\ req' = ListRequest(query)
           /\ res' = ListResponse(listing.bugs, parseInt(QueryPage(query)), limit,
                                  total, listPages(total, limit))
    /\ pre' = listing.seen
    /\ validationRan' = FALSE
    /\ dbCalls' = <<"find", "countDocuments">>
    /\ listing' = NoListing
    /\ UNCHANGED <<bugs, issued, updates, now, deleted>>
    /\ UNCHANGED <<input, result, sanitized, token, idValid, called, running, everFailed>>
    /\ UNCHANGED clientVars

\* The query strings the clients send
Paging(page, limit) ==
    [k \in {x \in {"page", "limit"} :
                (x = "page" /\ page # <<>>) \/ (x = "limit" /\ limit # <<>>)}
        |-> IF k = "page" THEN Str(page) ELSE Str(limit)]

Pagings ==
    {Paging(<<>>, <<>>), Paging(<<"1">>, <<"1">>), Paging(<<"2">>, <<"1">>),
     Paging(<<"3">>, <<"1">>), Paging(<<"1">>, <<"2">>)}

Filters ==
    {EmptyBody, OneKey("status", validStatuses[1]), OneKey("status", Str(<<>>)),
     OneKey("priority", validPriorities[3]),
     Spread(OneKey("status", validStatuses[3]), OneKey("priority", validPriorities[3]))}

Queries == {Spread(f, pg) : f \in Filters, pg \in Pagings}

\* The bodies that fill the collection for the list
ListedBodies ==
    {Required, Rich, Spread(Required, OneKey("priority", validPriorities[3]))}

ListedUpdates ==
    {OneKey("status", validStatuses[3]),
     Spread(Required, OneKey("createdAt", DateV(FutureTime)))}

IssuedIds == {ObjectIdOf(n) : n \in 1..MaxBugs}

NextList ==
    \/ Tick
    \/ AwaitRequest
    \/ \E query \in Queries : ListBugsFind(query)
    \/ ListBugsCount
    \/ \E body \in ListedBodies : PostBug(body)
    \/ \E id \in IssuedIds, body \in ListedUpdates : PutBug(id, body)
    \/ \E id \in IssuedIds : DeleteBug(id)

SpecList == Init /\ [][NextList]_vars

\* ------------------------------------------------------------------------
\* The handlers when an operation of the collection throws.  A write that
\* throws may or may not have been applied.
\* ------------------------------------------------------------------------
\* The request is answered from the catch block
Caught(request, calls) ==
    /\ req' = request
    /\ pre' = bugs
    /\ dbCalls' = calls \o <<"throws">>
    /\ res' = storeFailure(StoreError).res
    /\ running' = storeFailure(StoreError).running
    /\ everFailed' = TRUE
    /\ UNCHANGED <<now, input, result, sanitized, token, idValid, called>>
    /\ UNCHANGED clientVars

\* router.get('/:id'): Bug.findById throws
GetBugFails(id) ==
    /\ Idle /\ running
    /\ isValidObjectId(id)
    /\ Caught(Request("GET", id, EmptyBody), <<"findById">>)
    /\ validationRan' = FALSE
    /\ UNCHANGED <<bugs, issued, updates, deleted, listing>>

\* router.post('/'): bug.save() throws
PostBugFails(body, applied) ==
    LET sanitizedData == sanitizeBugData(body)
    IN  /\ Idle /\ running
        /\ validateBugData(sanitizedData).isValid
        /\ Caught(Request("POST", <<>>, body), <<"save">>)
        /\ validationRan' = TRUE
        /\ IF applied
             THEN /\ issued < MaxBugs
                  /\ bugs' = bugs \cup {newBug(sanitizedData, issued + 1, now)}
                  /\ issued' = issued + 1
           ELSE UNCHANGED <<bugs, issued>>
        /\ UNCHANGED <<updates, deleted, listing>>

\* router.put('/:id'): Bug.findByIdAndUpdate throws
PutBugFails(id, body, applied) ==
    LET sanitizedData == sanitizeBugData(body)
        found == findById(bugs, id)
    IN  /\ Idle /\ running
        /\ isValidObjectId(id)
        /\ needsValidation(sanitizedData) => validateBugData(sanitizedData).isValid
        /\ Caught(Request("PUT", id, body), <<"findByIdAndUpdate">>)
        /\ validationRan' = needsValidation(sanitizedData)
        /\ IF applied /\ found # {}
             THEN LET old == CHOOSE b \in found : TRUE
                  IN  /\ updates < MaxUpdates
                      /\ updates' = updates + 1
                      /\ bugs' = (bugs \ {old})
                             \cup {applyUpdate(old, updateFields(sanitizedData, now))}
           ELSE UNCHANGED <<bugs, updates>>
        /\ UNCHANGED <<issued, deleted, listing>>

\* router.delete('/:id'): Bug.findByIdAndDelete throws
DeleteBugFails(id, applied) ==
    LET found == findById(bugs, id)
    IN  /\ Idle /\ running
        /\ isValidObjectId(id)
        /\ Caught(Request("DELETE", id, EmptyBody), <<"findByIdAndDelete">>)
        /\ validationRan' = FALSE
        /\ IF applied
             THEN /\ bugs' = bugs \ found
                  /\ deleted' = deleted \cup {b["_id"].v : b \in found}
           ELSE UNCHANGED <<bugs, deleted>>
        /\ UNCHANGED <<issued, updates, listing>>

\* router.get('/'): Bug.find throws
ListBugsFindFails(query) ==
    /\ Idle /\ running
    /\ ~listing.active
    /\ Caught(ListRequest(query), <<"find">>)
    /\ validationRan' = FALSE
    /\ UNCHANGED <<bugs, issued, updates, deleted, listing>>

\* router.get('/'): Bug.countDocuments throws
ListBugsCountFails ==
    /\ Idle /\ running
    /\ listing.active
    /\ Caught(ListRequest(listing.query), <<"find", "countDocuments">>)
    /\ validationRan' = FALSE
    /\ listing' = NoListing
    /\ UNCHANGED <<bugs, issued, updates, deleted>>

\* The requests of the runs in which the collection may fail
FailingBodies == {Required, EmptyBody, OneKey("status", validStatuses[4])}
FailingIds == IssuedIds \cup {ShortId}
FailingQueries == {Spread(OneKey("status", validStatuses[4]),
                                     Paging(<<"1">>, <<"1">>))}

NextFail ==
    \/ Tick
    \/ AwaitRequest
    \/ \E id \in FailingIds : GetBug(id)
    \/ \E body \in FailingBodies : PostBug(body)
    \/ \E id \in FailingIds, body \in FailingBodies : PutBug(id, body)
    \/ \E id \in FailingIds : DeleteBug(id)
    \/ \E query \in FailingQueries : ListBugsFind(query)
    \/ ListBugsCount
    \/ \E id \in FailingIds : GetBugFails(id)
    \/ \E body \in FailingBodies, applied \in BOOLEAN : PostBugFails(body, applied)
    \/ \E id \in FailingIds, body \in FailingBodies, applied \in BOOLEAN :
          PutBugFails(id, body, applied)
    \/ \E id \in FailingIds, applied \in BOOLEAN : DeleteBugFails(id, applied)
    \/ \E query \in FailingQueries : ListBugsFindFails(query)
    \/ ListBugsCountFails

SpecFail == Init /\ [][NextFail]_vars

\* ------------------------------------------------------------------------
\* The BugList component: its parent hands it the bugs, the user sets and
\* clears the filters.  The effect of lines 473-498 runs after every render
\* in which bugs or filter changed, before the next event is handled.
\* ------------------------------------------------------------------------
routeVars == <<bugs, issued, updates, now, req, res, pre, validationRan, dbCalls, deleted>>
utilityVars == <<input, result, sanitized, token, idValid, called, listing,
                 running, everFailed, againVars, formVars, appVars>>

\* The bugs the parent hands down
LoginBug ==
    [_id |-> Str(ObjectIdOf(1)),
     title |-> Str(<<"L","o","g","i","n">>),
     description |-> Str(<<"N","o"," ","e","n","t","r","y">>),
     reporter |-> Str(<<"A","n","n">>),
     status |-> validStatuses[1], priority |-> validPriorities[3],
     assignee |-> Str(<<"B","o","b">>),
     tags |-> Arr(<<Str(<<"U","I">>), Str(<<"a","u","t","h">>)>>)]

CrashBug ==
    [_id |-> Str(ObjectIdOf(2)),
     title |-> Str(<<"c","r","a","s","h">>),
     description |-> Str(<<"o","n"," ","l","o","a","d">>),
     reporter |-> Str(<<"b","o","b">>),
     status |-> validStatuses[4], priority |-> validPriorities[1]]

SlowBug ==
    [_id |-> Str(ObjectIdOf(3)),
     title |-> Str(<<"S","l","o","w">>),
     description |-> Str(<<"U","i"," ","l","a","g","s">>),
     reporter |-> Str(<<"C","y">>),
     status |-> validStatuses[1], priority |-> validPriorities[1],
     assignee |-> Str(<<>>),
     tags |-> Arr(<<>>)]

TypoBug ==
    [_id |-> Str(ObjectIdOf(4)),
     title |-> Str(<<"T","y","p","o">>),
     description |-> Str(<<"i","n"," ","f","o","o","t","e","r">>),
     reporter |-> Str(<<"A","n","n">>),
     status |-> validStatuses[3], priority |-> validPriorities[3],
     assignee |-> Str(<<"L","O","U">>),
     tags |-> Arr(<<Str(<<"D","o","c","s">>)>>)]

SourceLists ==
    {<<>>, <<CrashBug>>, <<LoginBug, CrashBug, SlowBug>>,
     <<SlowBug, TypoBug, LoginBug>>, <<TypoBug, SlowBug, CrashBug, LoginBug>>}

\* The values of the status and priority selects, and the texts typed into
\* the search box
StatusOptions == {Str(<<>>), validStatuses[1], validStatuses[3], validStatuses[4]}
PriorityOptions == {Str(<<>>), validPriorities[1], validPriorities[3]}
SearchTexts == {Str(<<>>), Str(<<"L","O">>), Str(<<"b","o","b">>), Str(<<"u","i">>),
                Str(<<" ">>), Str(<<"z","z">>), Str(<<"A","u","t","h">>)}

FilterValues(name) ==
    CASE name = "status" -> StatusOptions
      [] name = "priority" -> PriorityOptions
      [] name = "search" -> SearchTexts

\* The parent renders BugList with another list
ReplaceBugs(list) ==
    /\ bugsProp' = bugsAfterEffect(list)
    /\ filteredBugs' = applyFilter(list, filter)
    /\ view' = BugListView(errorProp, isLoading, filteredBugs', bugsProp')
    /\ UNCHANGED <<filter, propVars, routeVars, utilityVars>>

\* handleFilterChange: a select or the search box changes
handleFilterChange(name, value) ==
    /\ ~Truthy(errorProp)
    /\ filter' = [filter EXCEPT ![name] = value]
    /\ filteredBugs' = applyFilter(bugsProp, filter')
    /\ bugsProp' = bugsAfterEffect(bugsProp)
    /\ view' = BugListView(errorProp, isLoading, filteredBugs', bugsProp')
    /\ UNCHANGED <<propVars, routeVars, utilityVars>>

\* clearFilters: the button is rendered while some criterion is set
clearFilters ==
    /\ ~Truthy(errorProp)
    /\ Truthy(filter.status) \/ Truthy(filter.priority) \/ Truthy(filter.search)
    /\ filter' = NoFilter
    /\ filteredBugs' = applyFilter(bugsProp, filter')
    /\ bugsProp' = bugsAfterEffect(bugsProp)
    /\ view' = BugListView(errorProp, isLoading, filteredBugs', bugsProp')
    /\ UNCHANGED <<propVars, routeVars, utilityVars>>

\* The values the parent gives isLoading and error
LoadingValues == {Undefined, Bool(FALSE), Bool(TRUE)}
ErrorValues == {Undefined, Null, Str(<<>>), Str(<<"F","a","i","l","e","d">>)}

\* The parent renders BugList with another isLoading and error
ReplaceProps(loadingValue, errorValue) ==
    /\ isLoading' = loadingValue
    /\ errorProp' = errorValue
    /\ view' = BugListView(errorValue, loadingValue, filteredBugs, bugsProp)
    /\ UNCHANGED <<bugsProp, filter, filteredBugs, routeVars, utilityVars>>

NextBugList ==
    \/ \E list \in SourceLists : ReplaceBugs(list)
    \/ \E loadingValue \in LoadingValues, errorValue \in ErrorValues :
          ReplaceProps(loadingValue, errorValue)
    \/ \E name \in {"status", "priority", "search"} :
          \E value \in FilterValues(name) : handleFilterChange(name, value)
    \/ clearFilters

SpecBugList == Init /\ [][NextBugList]_vars

\* ------------------------------------------------------------------------
\* Direct calls of validateBugData, as the unit tests make them
\* ------------------------------------------------------------------------
ValidatorChoices(k) ==
    CASE k = "title" -> {Undefined, Str(<<"a">>), Str(<<" ", "\t">>), Num(7),
                         Str(Rep("x", MaxTitleLen + 1))}
      [] k = "description" -> {Undefined, Str(<<"d">>),
                               Str(Rep("y", MaxDescriptionLen + 1))}
      [] k = "status" -> {Undefined, validStatuses[2], Str(<<"b","o","g","u","s">>)}
      [] k = "priority" -> {Undefined, Str(<<"b","o","g","u","s">>), Str(<<>>)}
      [] k = "reporter" -> {Undefined, Str(<<"r">>), Str(<<" ">>)}
      [] k = "assignee" -> {Undefined, Str(<<"x">>), Num(7)}
      [] k = "tags" -> {Undefined, Str(<<"t">>), Arr(<<Num(7)>>),
                        Arr(<<Str(<<"t">>), Num(7), Null, Str(<<" ">>), Bool(TRUE)>>)}

\* The mapping with the keys whose value is not undefined
Mapping(title, description, status, priority, reporter, assignee, tags) ==
    LET all == [k \in BugKeys |->
                   CASE k = "title" -> title
                     [] k = "description" -> description
                     [] k = "status" -> status
                     [] k = "priority" -> priority
                     [] k = "reporter" -> reporter
                     [] k = "assignee" -> assignee
                     [] k = "tags" -> tags]
    IN  [k \in {x \in BugKeys : all[x] # Undefined} |-> all[k]]

\* Every combination of the values above
CombinedInputs ==
    {Mapping(title, description, status, priority, reporter, assignee, tags) :
        title \in ValidatorChoices("title"),
        description \in ValidatorChoices("description"),
        status \in ValidatorChoices("status"),
        priority \in ValidatorChoices("priority"),
        reporter \in ValidatorChoices("reporter"),
        assignee \in ValidatorChoices("assignee"),
        tags \in ValidatorChoices("tags")}

\* Further values of one field: the falsy values, the values at the length
\* limits, the other types
EdgeChoices(k) ==
    CASE k = "title" -> {Str(<<>>), Null, Num(0), Bool(FALSE), Arr(<<>>),
                         Str(Rep("x", MaxTitleLen)),
                         Str(Rep("x", MaxTitleLen) \o <<" ">>),
                         Str(<<"\n">> \o Rep("x", MaxTitleLen - 1))}
      [] k = "description" -> {Str(<<>>), Null, Num(7), Str(<<"\n", " ">>),
                               Str(Rep("y", MaxDescriptionLen)),
                               Str(<<" ">> \o Rep("y", MaxDescriptionLen))}
      [] k = "status" -> {Str(<<>>), Null, Num(0), Bool(FALSE), validStatuses[1],
                          validStatuses[3], validStatuses[4],
                          Str(<<"O","p","e","n">>), Arr(<<validStatuses[1]>>)}
      [] k = "priority" -> {Null, Num(0), Bool(FALSE), Num(7), Bool(TRUE),
                            validPriorities[1], validPriorities[2],
                            validPriorities[3], validPriorities[4],
                            Str(<<"L","o","w">>), Arr(<<validPriorities[1]>>)}
      [] k = "reporter" -> {Str(<<>>), Null, Num(7), Bool(TRUE), Str(<<"\t", "\n">>),
                            Str(Rep("z", MaxTitleLen + 1))}
      [] k = "assignee" -> {Str(<<>>), Str(<<" ">>), Null, Num(0), Bool(FALSE),
                            Bool(TRUE), Arr(<<>>), Arr(<<Str(<<"x">>)>>), DateV(0)}
      [] k = "tags" -> {Str(<<>>), Null, Num(0), Num(7), Bool(TRUE), Arr(<<>>),
                        Arr(<<Str(<<"t">>), Str(<<>>)>>),
                        Arr(<<Arr(<<>>), Str(<<" ", "t", " ">>), Str(<<"\t">>),
                              Num(0), Str(<<"u">>)>>)}

\* A mapping that passes, and one in which every field fails
ValidData == Mapping(Str(<<"a">>), Str(<<"d">>), Undefined, Undefined,
                     Str(<<"r">>), Undefined, Undefined)
InvalidData == Mapping(Num(7), Str(Rep("y", MaxDescriptionLen + 1)),
                       Str(<<"b","o","g","u","s">>), Str(<<"b","o","g","u","s">>),
                       Str(<<" ">>), Num(7), Arr(<<Num(7)>>))

\* The texts isValidObjectId is tried on: lengths 0, 1, 23, 24 and 25, both
\* cases of the letters, and characters outside the hexadecimal alphabet in
\* the first, a middle and the last place
SampleId == <<"5","0","7","f","1","f","7","7","b","c","f","8",
              "6","c","d","7","9","9","4","3","9","0","1","1">>
MixedCaseId == <<"0","1","2","3","4","5","6","7","8","9","a","b",
                 "c","d","e","f","A","B","C","D","E","F","0","9">>
OtherChars == {"g", "G", "z", "-", " ", "\n", "x", "/", ":", "@"}

WithCharAt(id, i, c) == [j \in 1..Len(id) |-> IF j = i THEN c ELSE id[j]]

IdInputs ==
    {<<>>, <<"0">>, <<"g">>, SampleId, MixedCaseId, ForeignId,
     SubSeq(SampleId, 1, ObjectIdLen - 1), SubSeq(SampleId, 2, ObjectIdLen),
     SampleId \o <<"1">>, <<"a">> \o SampleId, SampleId \o SampleId,
     <<"i","n","v","a","l","i","d">>}
    \cup {WithCharAt(id, i, c) : id \in {SampleId, MixedCaseId},
                                 i \in {1, 12, ObjectIdLen}, c \in OtherChars}
    \cup {SubSeq(SampleId, 1, ObjectIdLen - 1) \o <<c>> \o <<"1">> : c \in OtherChars}
    \cup {SampleId \o <<c>> : c \in OtherChars}
    \cup {<<c>> \o SampleId : c \in OtherChars}

\* One field of such a mapping replaced by an edge value
EdgeInputs ==
    UNION {{Put(base, k, v) : v \in EdgeChoices(k), base \in {ValidData, InvalidData}}
           : k \in BugKeys}

\* Mappings with keys the utilities do not know
UnknownKeyInputs ==
    {Rich, Spread(Required, OneKey("severity", Str(<<" ", "s", " ">>))),
     OneKey("severity", Arr(<<Str(<<" ">>), Num(7)>>))}

\* The padded texts and tags of the sanitizeBugData tests
PaddedData ==
    Mapping(Str(<<" ", " ", "T", " ", "B", " ", " ">>),
            Str(<<" ", " ", "D", " ", " ">>), Undefined, Undefined,
            Str(<<" ", " ", "J", " ", " ">>), Str(<<" ", " ", "S", " ", " ">>),
            Arr(<<Str(<<" ", " ", "t", "1", " ", " ">>), Str(<<>>),
                  Str(<<" ", " ", " ">>), Str(<<"t", "2">>)>>))

ValidatorInputs == CombinedInputs \cup EdgeInputs \cup UnknownKeyInputs \cup {PaddedData}

InitValidate ==
    /\ bugs = {}
    /\ issued = 0
    /\ updates = 0
    /\ now = 0
    /\ req = NoRequest
    /\ res = NoResponse
    /\ pre = {}
    /\ validationRan = FALSE
    /\ dbCalls = <<>>
    /\ deleted = {}
    /\ \/ input \in ValidatorInputs /\ token = SampleId
       \/ input = ValidData /\ token \in IdInputs
    /\ result = NotCalled
    /\ sanitized = EmptyBody
    /\ idValid = FALSE
    /\ called = "none"
    /\ listing = NoListing
    /\ running = TRUE
    /\ everFailed = FALSE
    /\ bugsProp = <<>>
    /\ filter = NoFilter
    /\ filteredBugs = <<>>
    /\ isLoading = Undefined
    /\ errorProp = Undefined
    /\ view = BugListView(Undefined, Undefined, <<>>, <<>>)
    /\ resanitized = EmptyBody
    /\ revalidated = NotCalled
    /\ initialData = Null
    /\ formData = initialFormData(Null)
    /\ tagInput = <<>>
    /\ errors = NoErrors
    /\ onSubmitCalls = <<>>
    /\ appBugs = <<>>
    /\ loading = TRUE
    /\ error = Null
    /\ editingBug = Null
    /\ showForm = FALSE
    /\ pending = {}

\* const result = validateBugData(input)
Validate ==
    /\ called = "none"
    /\ called' = "validateBugData"
    /\ validationRan' = TRUE
    /\ result' = validateBugData(input)
    /\ UNCHANGED <<bugs, issued, updates, now, req, res, pre, dbCalls, deleted>>
    /\ UNCHANGED <<input, sanitized, token, idValid, listing, running, everFailed>>
    /\ UNCHANGED clientVars

\* const result = sanitizeBugData(input)
Sanitize ==
    /\ called = "none"
    /\ called' = "sanitizeBugData"
    /\ sanitized' = sanitizeBugData(input)
    /\ input' = sanitizeBugDataArgument(input)
    /\ UNCHANGED <<bugs, issued, updates, now, req, res, pre, dbCalls, deleted>>
    /\ UNCHANGED <<validationRan, result, token, idValid, listing, running, everFailed>>
    /\ UNCHANGED clientVars

\* isValidObjectId(token)
CheckId ==
    /\ called = "none"
    /\ called' = "isValidObjectId"
    /\ idValid' = isValidObjectId(token)
    /\ UNCHANGED <<bugs, issued, updates, now, req, res, pre, dbCalls, deleted>>
    /\ UNCHANGED <<validationRan, input, result, sanitized, token, listing,
                   running, everFailed>>
    /\ UNCHANGED clientVars

\* sanitizeBugData(sanitized), and validateBugData of both results
SanitizeAgain ==
    /\ called = "sanitizeBugData"
    /\ called' = "sanitizeBugData twice"
    /\ resanitized' = sanitizeBugData(sanitized)
    /\ result' = validateBugData(sanitized)
    /\ revalidated' = validateBugData(resanitized')
    /\ validationRan' = TRUE
    /\ UNCHANGED <<bugs, issued, updates, now, req, res, pre, dbCalls, deleted>>
    /\ UNCHANGED <<input, sanitized, token, idValid, listing, running, everFailed>>
    /\ UNCHANGED <<bugsProp, filter, filteredBugs, view, propVars, formVars, appVars>>

NextValidate == Validate \/ Sanitize \/ CheckId \/ SanitizeAgain

SpecValidate == InitValidate /\ [][NextValidate]_vars

\* ------------------------------------------------------------------------
\* The BugForm component: the user fills in the fields, adds and removes
\* tags and submits; the data the form hands to onSubmit is posted to the
\* server, after which the form is not used any more.
\* ------------------------------------------------------------------------
besideForm == <<routeVars, input, result, sanitized, token, idValid, called, listing,
                running, everFailed, againVars, bugsProp, filter, filteredBugs, view,
                propVars, appVars>>

\* Stored records the form is opened on: as the server created them, received
\* as JSON
EditedBug ==
    viaJSON(newBug(sanitizeBugData(
        Mapping(Str(<<"a">>), Str(<<"d">>), validStatuses[3], validPriorities[4],
                Str(<<"r">>), Str(<<" ", "x">>), Arr(<<Str(<<"t">>), Str(<<"u">>)>>))), 1, 0))

RepeatedTagsBug ==
    viaJSON(newBug(sanitizeBugData(
        Mapping(Str(<<"a">>), Str(<<"d">>), Undefined, Undefined,
                Str(<<"r">>), Undefined, Arr(<<Str(<<"t">>), Str(<<"t">>)>>))), 2, 0))

InitialDatas == {Null, EditedBug, RepeatedTagsBug}

\* What the user types and selects
TitleTexts == {Str(<<" ">>), Str(<<" ">> \o Rep("x", MaxTitleLen - 1)),
               Str(Rep("x", MaxTitleLen) \o <<" ">>)}
DescriptionTexts == {Str(Rep("y", MaxDescriptionLen)),
                     Str(Rep("y", MaxDescriptionLen) \o <<"\n">>)}
ReporterTexts == {Str(<<"\t">>), Str(<<"r">>)}
AssigneeTexts == {Str(<<" ", "x">>)}
StatusChoices == {validStatuses[3]}
PriorityChoices == {validPriorities[4]}
TagTexts == {<<" ">>, <<" ", "t", " ">>, <<"u">>}
PressedKeys == {"Enter", "a"}

FieldValues(name) ==
    CASE name = "title" -> TitleTexts
      [] name = "description" -> DescriptionTexts
      [] name = "reporter" -> ReporterTexts
      [] name = "assignee" -> AssigneeTexts
      [] name = "status" -> StatusChoices
      [] name = "priority" -> PriorityChoices

InitBugForm ==
    /\ bugs = {}
    /\ issued = 0
    /\ updates = 0
    /\ now = 0
    /\ req = NoRequest
    /\ res = NoResponse
    /\ pre = {}
    /\ validationRan = FALSE
    /\ dbCalls = <<>>
    /\ deleted = {}
    /\ input = EmptyBody
    /\ result = NotCalled
    /\ sanitized = EmptyBody
    /\ token = <<>>
    /\ idValid = FALSE
    /\ called = "none"
    /\ listing = NoListing
    /\ running = TRUE
    /\ everFailed = FALSE
    /\ bugsProp = <<>>
    /\ filter = NoFilter
    /\ filteredBugs = <<>>
    /\ isLoading = Undefined
    /\ errorProp = Undefined
    /\ view = BugListView(Undefined, Undefined, <<>>, <<>>)
    /\ resanitized = EmptyBody
    /\ revalidated = NotCalled
    /\ initialData \in InitialDatas
    /\ formData = initialFormData(initialData)
    /\ tagInput = <<>>
    /\ errors = NoErrors
    /\ onSubmitCalls = <<>>
    /\ appBugs = <<>>
    /\ loading = TRUE
    /\ error = Null
    /\ editingBug = Null
    /\ showForm = FALSE
    /\ pending = {}

\* handleInputChange: a field is edited
handleInputChange(name, value) ==
    /\ Idle
    /\ formData' = Put(formData, name, value)
    /\ errors' = IF name \in DOMAIN errors /\ errors[name] # ""
                   THEN [errors EXCEPT ![name] = ""]
                 ELSE errors
    /\ onSubmitCalls' = <<>>
    /\ UNCHANGED <<initialData, tagInput, besideForm>>

\* onChange of the tag input: setTagInput(e.target.value)
setTagInput(value) ==
    /\ Idle
    /\ tagInput' = value
    /\ onSubmitCalls' = <<>>
    /\ UNCHANGED <<initialData, formData, errors, besideForm>>

\* handleAddTag, from the Add Tag button, which is disabled while the tag
\* input is blank
handleAddTag ==
    /\ Idle
    /\ trim(tagInput) # <<>>
    /\ formData' = Put(formData, "tags", addTag(formData["tags"], tagInput).tags)
    /\ tagInput' = addTag(formData["tags"], tagInput).tagInput
    /\ onSubmitCalls' = <<>>
    /\ UNCHANGED <<initialData, errors, besideForm>>

\* handleTagKeyPress: Enter in the tag input calls handleAddTag
handleTagKeyPress(key) ==
    /\ Idle
    /\ IF key = "Enter"
         THEN /\ formData' = Put(formData, "tags", addTag(formData["tags"], tagInput).tags)
              /\ tagInput' = addTag(formData["tags"], tagInput).tagInput
       ELSE UNCHANGED <<formData, tagInput>>
    /\ onSubmitCalls' = <<>>
    /\ UNCHANGED <<initialData, errors, besideForm>>

\* handleRemoveTag, from the button of a tag that is shown
handleRemoveTag(tagToRemove) ==
    /\ Idle
    /\ hasTag(formData["tags"], tagToRemove)
    /\ formData' = Put(formData, "tags", removeTag(formData["tags"], tagToRemove))
    /\ onSubmitCalls' = <<>>
    /\ UNCHANGED <<initialData, tagInput, errors, besideForm>>

\* handleSubmit: validateForm, then onSubmit(formData) when it passes
handleSubmit ==
    /\ Idle
    /\ errors' = validateForm(formData)
    /\ onSubmitCalls' = IF DOMAIN validateForm(formData) = {} THEN <<formData>> ELSE <<>>
    /\ UNCHANGED <<initialData, formData, tagInput, besideForm>>

\* The parent posts what onSubmit was given: createBug(bugData)
PostSubmitted ==
    /\ onSubmitCalls # <<>>
    /\ PostBug(viaJSON(onSubmitCalls[1]))

NextBugForm ==
    \/ \E name \in {"title", "description", "reporter", "assignee", "status", "priority"} :
          \E value \in FieldValues(name) : handleInputChange(name, value)
    \/ \E value \in TagTexts : setTagInput(value)
    \/ handleAddTag
    \/ \E key \in PressedKeys : handleTagKeyPress(key)
    \/ \E tag \in {<<"t">>, <<"u">>} : handleRemoveTag(tag)
    \/ handleSubmit
    \/ PostSubmitted

SpecBugForm == InitBugForm /\ [][NextBugForm]_vars

\* ------------------------------------------------------------------------
\* client/src/App.js with services/api.js: the page keeps the list of bugs
\* in its state and calls the API service; each handler waits (await) for
\* the answer of its own request, the server answers the requests one at a
\* time in any order, and the answers arrive in any order.
\* ------------------------------------------------------------------------
\* Calls of the API service that may wait at the same time
MaxPending == 2

\* App.js:30
LoadFailedMessage ==
    Str(<<"F","a","i","l","e","d"," ","t","o"," ","l","o","a","d"," ","b","u","g","s",".",
          " ","P","l","e","a","s","e"," ","t","r","y"," ","a","g","a","i","n",".">>)

\* api.js:11-38  apiRequest has sent the request and awaits fetch
Call(kind, request) ==
    [kind |-> kind, request |-> request, phase |-> "sent", response |-> NoResponse]

\* api.js:45-49  getBugs() without parameters: GET /api/bugs
getBugs == Call("getBugs", ListRequest(EmptyBody))

\* api.js:66-71
createBug(bugData) == Call("createBug", Request("POST", <<>>, viaJSON(bugData)))

\* api.js:79-85
updateBug(id, bugData) == Call("updateBug", Request("PUT", id.v, viaJSON(bugData)))

\* api.js:92-97
deleteBug(id) == Call("deleteBug", Request("DELETE", id.v, EmptyBody))

\* api.js:105-113
updateBugStatus(id, status) ==
    Call("updateBugStatus", Request("PUT", id.v, OneKey("status", status)))

\* Mutant: a response counts as ok whatever its status
ResponseOk_Always(response) == TRUE

\* api.js:29  response.ok
ResponseOk(response) == response.status \in 200..299

\* api.js:25,33  the body of the response, parsed: the list of a list
\* response, the record of a record response
ParsedBugs(response) == [i \in 1..Len(response.bugs) |-> viaJSON(response.bugs[i])]

\* What the user types into the form the page shows (the form calls
\* onSubmit with valid data only)
SubmittedData(initial) ==
    IF initial = Null THEN Spread(initialFormData(Null), Required)
    ELSE Put(initialFormData(initial), "title", Str(<<"b">>))

\* The statuses the user picks in a list item
PickedStatuses == {validStatuses[3]}

\* The rows of the list are on the page: BugList shows them when there is
\* neither an error nor a load in progress
RowsShown == error = Null /\ ~loading

ShownBugs == {appBugs[i] : i \in 1..Len(appBugs)}

\* App.js:53-55, 81-83  prev.map(bug => bug._id === id ? updatedBug : bug)
replaceById(prev, id, updatedBug) ==
    [i \in 1..Len(prev) |-> IF prev[i]["_id"] = Str(id) THEN updatedBug ELSE prev[i]]

\* App.js:69  prev.filter(bug => bug._id !== bugId)
removeById(prev, id) ==
    LET Other(bug) == bug["_id"] # Str(id)
    IN  SelectSeq(prev, Other)

\* The state of App once it is mounted: useState (App.js:9-13), then the
\* effect of the mount calls loadBugs, which waits for getBugs (App.js:16-25)
InitApp ==
    /\ bugs = {}
    /\ issued = 0
    /\ updates = 0
    /\ now = 0
    /\ req = NoRequest
    /\ res = NoResponse
    /\ pre = {}
    /\ validationRan = FALSE
    /\ dbCalls = <<>>
    /\ deleted = {}
    /\ input = EmptyBody
    /\ result = NotCalled
    /\ sanitized = EmptyBody
    /\ token = <<>>
    /\ idValid = FALSE
    /\ called = "none"
    /\ listing = NoListing
    /\ running = TRUE
    /\ everFailed = FALSE
    /\ bugsProp = <<>>
    /\ filter = NoFilter
    /\ filteredBugs = <<>>
    /\ isLoading = Undefined
    /\ errorProp = Undefined
    /\ view = BugListView(Undefined, Undefined, <<>>, <<>>)
    /\ resanitized = EmptyBody
    /\ revalidated = NotCalled
    /\ initialData = Null
    /\ formData = initialFormData(Null)
    /\ tagInput = <<>>
    /\ errors = NoErrors
    /\ onSubmitCalls = <<>>
    /\ appBugs = <<>>
    /\ loading = TRUE
    /\ error = Null
    /\ editingBug = Null
    /\ showForm = FALSE
    /\ pending = {getBugs}

\* Everything but the state of App and the server
besideApp == <<input, result, sanitized, token, idValid, called, running, everFailed,
               bugsProp, filter, filteredBugs, view, propVars, againVars, formVars>>

\* The Refresh button (App.js:127-133), enabled while no load is in
\* progress: loadBugs up to its await (App.js:20-25)
loadBugs ==
    /\ ~loading
    /\ Cardinality(pending) < MaxPending
    /\ loading' = TRUE
    /\ error' = Null
    /\ pending' = pending \cup {getBugs}
    /\ UNCHANGED <<appBugs, editingBug, showForm, routeVars, listing, besideApp>>

\* The Report New Bug button (App.js:120-126)
openForm ==
    /\ ~showForm
    /\ showForm' = TRUE
    /\ UNCHANGED <<appBugs, loading, error, editingBug, pending, routeVars, listing,
                   besideApp>>

\* handleFormSubmit (App.js:102-108) up to the await of handleUpdateBug
\* (App.js:52) or handleCreateBug (App.js:39)
handleFormSubmit(bugData) ==
    /\ showForm
    /\ Cardinality(pending) < MaxPending
    /\ pending' = pending \cup
          {IF editingBug # Null THEN updateBug(editingBug["_id"], bugData)
           ELSE createBug(bugData)}
    /\ pending' # pending
    /\ UNCHANGED <<appBugs, loading, error, editingBug, showForm, routeVars, listing,
                   besideApp>>

\* handleEditBug (App.js:91-95)
handleEditBug(bug) ==
    /\ RowsShown
    /\ bug \in ShownBugs
    /\ editingBug' = bug
    /\ showForm' = TRUE
    /\ <<editingBug', showForm'>> # <<editingBug, showForm>>
    /\ UNCHANGED <<appBugs, loading, error, pending, routeVars, listing, besideApp>>

\* handleDeleteBug (App.js:65-68) up to its await
handleDeleteBug(bugId) ==
    /\ RowsShown
    /\ \E bug \in ShownBugs : bug["_id"] = bugId
    /\ Cardinality(pending) < MaxPending
    /\ pending' = pending \cup {deleteBug(bugId)}
    /\ pending' # pending
    /\ UNCHANGED <<appBugs, loading, error, editingBug, showForm, routeVars, listing,
                   besideApp>>

\* handleStatusChange (App.js:77-80) up to its await
handleStatusChange(bugId, newStatus) ==
    /\ RowsShown
    /\ \E bug \in ShownBugs : bug["_id"] = bugId
    /\ Cardinality(pending) < MaxPending
    /\ pending' = pending \cup {updateBugStatus(bugId, newStatus)}
    /\ pending' # pending
    /\ UNCHANGED <<appBugs, loading, error, editingBug, showForm, routeVars, listing,
                   besideApp>>

\* The server handles the request of a waiting call
Serve(call) ==
    /\ call \in pending
    /\ call.phase = "sent"
    /\ CASE call.kind = "getBugs" -> ListBugsFind(EmptyBody)
         [] call.kind = "createBug" -> PostBug(call.request.body)
         [] call.kind = "deleteBug" -> DeleteBug(call.request.id)
         [] OTHER -> PutBug(call.request.id, call.request.body)

\* The response leaves the server: fetch of the call that sent the request
\* has its response (api.js:24-25), or the response is lost on its way
Deliver ==
    /\ ~Idle
    /\ \E call \in pending :
          /\ call.phase = "sent"
          /\ call.request = req
          /\ \/ pending' = (pending \ {call}) \cup
                               {[call EXCEPT !.phase = "answered", !.response = res]}
             \/ pending' = (pending \ {call}) \cup {[call EXCEPT !.phase = "lost"]}
    /\ req' = NoRequest
    /\ res' = NoResponse
    /\ pre' = {}
    /\ validationRan' = FALSE
    /\ dbCalls' = <<>>
    /\ UNCHANGED <<bugs, issued, updates, now, deleted, listing, besideApp>>
    /\ UNCHANGED <<appBugs, loading, error, editingBug, showForm>>

\* The server is handling the request of the call
BeingServed(call) ==
    \/ call.request = req
    \/ call.kind = "getBugs" /\ listing.active

\* The call returns its data (api.js:33) and the handler goes on after its
\* await: App.js:26 and 32, 40-41, 53-57, 69, 81-83
Resolve(call) ==
    /\ call \in pending
    /\ call.phase = "answered"
    /\ ResponseOk(call.response)
    /\ pending' = pending \ {call}
    /\ CASE call.kind = "getBugs" ->
              /\ appBugs' = ParsedBugs(call.response)
              /\ loading' = FALSE
              /\ UNCHANGED <<error, editingBug, showForm>>
         [] call.kind = "createBug" ->
              /\ appBugs' = <<viaJSON(call.response.bug)>> \o appBugs
              /\ showForm' = FALSE
              /\ UNCHANGED <<loading, error, editingBug>>
         [] call.kind = "updateBug" ->
              /\ appBugs' = replaceById(appBugs, call.request.id, viaJSON(call.response.bug))
              /\ editingBug' = Null
              /\ showForm' = FALSE
              /\ UNCHANGED <<loading, error>>
         [] call.kind = "deleteBug" ->
              /\ appBugs' = removeById(appBugs, call.request.id)
              /\ UNCHANGED <<loading, error, editingBug, showForm>>
         [] call.kind = "updateBugStatus" ->
              /\ appBugs' = replaceById(appBugs, call.request.id, viaJSON(call.response.bug))
              /\ UNCHANGED <<loading, error, editingBug, showForm>>
    /\ UNCHANGED <<routeVars, listing, besideApp>>

\* The call throws (api.js:24-25 fetch or json fails, api.js:29-31 the
\* response is not ok) and the handler goes on in its catch block:
\* App.js:28-33, 43-46, 59-62, 71-74, 85-88
Reject(call) ==
    /\ call \in pending
    /\ \/ call.phase = "answered" /\ ~ResponseOk(call.response)
       \/ call.phase = "lost"
       \/ call.phase = "sent" /\ ~BeingServed(call)
    /\ pending' = pending \ {call}
    /\ IF call.kind = "getBugs"
         THEN /\ error' = LoadFailedMessage
              /\ loading' = FALSE
       ELSE UNCHANGED <<loading, error>>
    /\ UNCHANGED <<appBugs, editingBug, showForm, routeVars, listing, besideApp>>

NextApp ==
    \/ loadBugs
    \/ openForm
    \/ handleFormSubmit(SubmittedData(editingBug))
    \/ \E bug \in ShownBugs : handleEditBug(bug)
    \/ \E bug \in ShownBugs : handleDeleteBug(bug["_id"])
    \/ \E bug \in ShownBugs, newStatus \in PickedStatuses :
          handleStatusChange(bug["_id"], newStatus)
    \/ \E call \in pending : Serve(call)
    \/ ListBugsCount
    \/ Deliver
    \/ \E call \in pending : Resolve(call)
    \/ \E call \in pending : Reject(call)

SpecApp == InitApp /\ [][NextApp]_vars

\* ------------------------------------------------------------------------
\* Properties of the /api/bugs routes
\* ------------------------------------------------------------------------
Handled(method) == req.method = method

\* The identifier has the 24-hexadecimal-character shape
WellFormedId(id) == Len(id) = 24 /\ \A i \in 1..Len(id) : id[i] \in HexChars

\* The sanitized body passes the validator
BodyValid(body) == validateBugData(sanitizeBugData(body)).errors = <<>>

\* The body's only key is status
OnlyStatusKey(body) == DOMAIN body = {"status"}

\* The body's only key is status and its value is truthy
StatusOnlyBody(body) == OnlyStatusKey(body) /\ Truthy(body["status"])

IsTrimmed(s) == s = <<>> \/ (s[1] \notin WhiteSpace /\ s[Len(s)] \notin WhiteSpace)

TextFields == {"title", "description", "reporter"}

\* C1: a POST whose sanitized body passes validation answers 201 and adds
\* exactly one record, under an identifier no other record has, with status
\* "open" and priority "medium" when the body omits them and with the text
\* fields trimmed; a GET of an identifier that is in the collection answers
\* 200 with that very record.
C1_PostCreatesAndGetReturns ==
    /\ (Handled("POST") /\ BodyValid(req.body)) =>
          /\ res.status = 201
          /\ res.bug \notin pre
          /\ bugs = pre \cup {res.bug}
          /\ \A b \in pre : b["_id"] # res.bug["_id"]
          /\ WellFormedId(res.bug["_id"].v)
          /\ ("status" \notin DOMAIN req.body => res.bug["status"] = Str(<<"o","p","e","n">>))
          /\ ("priority" \notin DOMAIN req.body =>
                 res.bug["priority"] = Str(<<"m","e","d","i","u","m">>))
          /\ \A k \in TextFields :
                /\ res.bug[k] = Str(trim(req.body[k].v))
                /\ IsTrimmed(res.bug[k].v)
    /\ (Handled("GET") /\ WellFormedId(req.id)) =>
          /\ bugs = pre
          /\ \A b \in bugs : b["_id"].v = castObjectId(req.id) => res = Ok(200, b)

C1_Witness ==
    /\ Handled("POST")
    /\ res.status = 201
    /\ pre # {}
    /\ DOMAIN req.body = TextFields
    /\ \E k \in TextFields : ~IsTrimmed(req.body[k].v)

\* C2 as claimed: every POST or PUT whose sanitized body fails validation
\* answers 400 "Validation failed" with the validator's error list and
\* leaves the collection as it was.
C2_Original ==
    ((Handled("POST") \/ Handled("PUT")) /\ ~BodyValid(req.body)) =>
        /\ res = ValidationFailed(validateBugData(sanitizeBugData(req.body)).errors)
        /\ bugs = pre

\* C2 amended: the same for every POST, and for every PUT with a well-formed
\* identifier whose body is not a status-only body.
C2_InvalidBodyRejected ==
    (/\ Handled("POST") \/ (Handled("PUT") /\ WellFormedId(req.id)
                            /\ ~StatusOnlyBody(req.body))
     /\ ~BodyValid(req.body)) =>
        /\ res.status = 400
        /\ res.error = "Validation failed"
        /\ res.details = validateBugData(sanitizeBugData(req.body)).errors
        /\ res.details # <<>>
        /\ res.bug = NoBug
        /\ bugs = pre

C2_Witness ==
    /\ Handled("PUT")
    /\ pre # {}
    /\ findById(pre, req.id) # {}
    /\ res.error = "Validation failed"
    /\ Len(res.details) >= 2

\* C3: every stored record's status and priority are among the enumerated
\* values.
C3_EnumeratedStatusAndPriority ==
    \A b \in bugs :
        /\ \E i \in 1..Len(validStatuses) : b["status"] = validStatuses[i]
        /\ \E i \in 1..Len(validPriorities) : b["priority"] = validPriorities[i]

\* C4 as claimed: on a PUT with a well-formed identifier, validation is
\* skipped if and only if the body's only key is status, whatever its value.
C4_Original ==
    (Handled("PUT") /\ WellFormedId(req.id)) =>
        (~validationRan <=> OnlyStatusKey(req.body))

\* C4 amended: on a PUT with a well-formed identifier, validation is skipped
\* if and only if the body's only key is status and its value is truthy (not
\* the empty string, null, 0 or false).
C4_ValidationSkippedIffStatusOnly ==
    (Handled("PUT") /\ WellFormedId(req.id)) =>
        (~validationRan <=> StatusOnlyBody(req.body))

C4_Witness ==
    /\ Handled("PUT")
    /\ WellFormedId(req.id)
    /\ OnlyStatusKey(req.body)
    /\ ~Truthy(req.body["status"])
    /\ validationRan

\* The value is legal for the field by the data model
LegalValue(k, v) ==
    CASE k = "title" ->
           v.t = "string" /\ trim(v.v) # <<>> /\ Len(trim(v.v)) <= 100
      [] k = "description" ->
           v.t = "string" /\ trim(v.v) # <<>> /\ Len(trim(v.v)) <= 1000
      [] k = "reporter" -> v.t = "string" /\ trim(v.v) # <<>>
      [] k = "status" -> \E i \in 1..Len(validStatuses) : v = validStatuses[i]
      [] k = "priority" -> \E i \in 1..Len(validPriorities) : v = validPriorities[i]
      [] k = "assignee" -> v.t = "string"
      [] k = "tags" -> v.t = "array" /\ \A i \in 1..Len(v.v) : v.v[i].t = "string"
      [] k = "updatedAt" -> v.t = "date"
      [] OTHER -> FALSE

NonEmptyText(x) == x.v # <<>>

\* The sanitized form of a legal value
SanitizedValue(k, v) ==
    IF k \in {"title", "description", "reporter", "assignee"}
      THEN Str(trim(v.v))
    ELSE IF k = "tags"
      THEN Arr(SelectSeq([i \in 1..Len(v.v) |-> Str(trim(v.v[i].v))], NonEmptyText))
    ELSE v

\* A non-empty subset of the bug fields, each value legal (an updatedAt may
\* come along)
LegalFields(body) ==
    /\ DOMAIN body \subseteq BugKeys \cup {"updatedAt"}
    /\ DOMAIN body \cap BugKeys # {}
    /\ \A k \in DOMAIN body : LegalValue(k, body[k])

\* The PUT answered 200 with the record updated field by field
UpdatedAsSupplied ==
    LET old == CHOOSE b \in findById(pre, req.id) : TRUE
    IN  /\ res.status = 200
        /\ res.error = ""
        /\ bugs = (pre \ {old}) \cup {res.bug}
        /\ res.bug["_id"] = old["_id"]
        /\ \A k \in DOMAIN req.body \cap BugKeys :
               res.bug[k] = SanitizedValue(k, req.body[k])
        /\ res.bug["updatedAt"] = DateV(now)
        /\ \A k \in DOMAIN old \ (DOMAIN req.body \cup {"updatedAt"}) :
               res.bug[k] = old[k]
        /\ DOMAIN res.bug = DOMAIN old \cup DOMAIN req.body

\* C5 as claimed: a PUT on an existing record with any non-empty subset of
\* the bug fields, each value legal, answers 200 with the supplied fields
\* set to their sanitized values, updatedAt set to the server's time and
\* every other field kept.
C5_Original ==
    (/\ Handled("PUT") /\ WellFormedId(req.id)
     /\ findById(pre, req.id) # {}
     /\ LegalFields(req.body)) => UpdatedAsSupplied

\* C5 amended: the same, for a body that is either status alone or carries
\* title, description and reporter; any other such body is rejected with 400
\* "Validation failed" and changes nothing.
C5_UpdateSetsSuppliedKeepsRest ==
    (/\ Handled("PUT") /\ WellFormedId(req.id)
     /\ findById(pre, req.id) # {}
     /\ LegalFields(req.body)) =>
        IF OnlyStatusKey(req.body) \/ TextFields \subseteq DOMAIN req.body
          THEN UpdatedAsSupplied
        ELSE res.status = 400 /\ res.error = "Validation failed" /\ bugs = pre

C5_Witness ==
    /\ Handled("PUT")
    /\ res.status = 200
    /\ LegalFields(req.body)
    /\ "updatedAt" \in DOMAIN req.body
    /\ req.body["updatedAt"] # res.bug["updatedAt"]
    /\ "tags" \in DOMAIN res.bug \ DOMAIN req.body
    /\ \E k \in TextFields : req.body[k] # res.bug[k]

\* The request names a well-formed identifier that matches no stored record
AbsentId ==
    /\ Handled("GET") \/ Handled("PUT") \/ Handled("DELETE")
    /\ WellFormedId(req.id)
    /\ findById(pre, req.id) = {}

\* C6 as claimed: GET, PUT and DELETE of a well-formed identifier that
\* matches no record answer 404 "Bug not found" and leave the collection
\* unchanged, whatever the body.
C6_Original ==
    AbsentId => (res.status = 404 /\ res.error = "Bug not found" /\ bugs = pre)

\* C6 amended: the same, for a PUT only when its body is status-only or
\* passes validation (a PUT whose body fails validation answers 400 first).
C6_AbsentIdNotFound ==
    (AbsentId /\ (Handled("PUT") => StatusOnlyBody(req.body) \/ BodyValid(req.body)))
        => (res.status = 404 /\ res.error = "Bug not found" /\ res.bug = NoBug
            /\ bugs = pre)

C6_Witness ==
    /\ Handled("PUT")
    /\ AbsentId
    /\ pre # {}
    /\ BodyValid(req.body)
    /\ res.status = 404

\* C7: GET, PUT and DELETE of an identifier that is not 24 hexadecimal
\* characters answer 400 "Invalid bug ID format" without calling the
\* collection.
C7_MalformedIdRejected ==
    (/\ Handled("GET") \/ Handled("PUT") \/ Handled("DELETE")
     /\ (Len(req.id) # 24 \/ \E i \in 1..Len(req.id) : req.id[i] \notin HexChars))
        => /\ res.status = 400
           /\ res.error = "Invalid bug ID format"
           /\ dbCalls = <<>>
           /\ bugs = pre

C7_Witness ==
    /\ Handled("DELETE")
    /\ Len(req.id) = 24
    /\ \E i \in 1..Len(req.id) : req.id[i] \notin HexChars
    /\ pre # {}
    /\ res.status = 400

\* A DELETE of an existing record answers 200 with the success message and
\* removes exactly that record
DeleteRemoves ==
    (Handled("DELETE") /\ WellFormedId(req.id) /\ findById(pre, req.id) # {}) =>
        /\ res.status = 200
        /\ res.message = "Bug deleted successfully"
        /\ bugs = pre \ findById(pre, req.id)
        /\ Cardinality(pre \ bugs) = 1

DeletedId == WellFormedId(req.id) /\ castObjectId(req.id) \in deleted

\* No stored record bears a deleted identifier
DeletedStayGone == \A b \in bugs : b["_id"].v \notin deleted

\* C8 as claimed: DELETE of an existing record answers 200 and removes
\* exactly it; ever after, GET, PUT and DELETE of that identifier answer 404
\* and no record bears it again.
C8_Original ==
    /\ DeleteRemoves
    /\ DeletedStayGone
    /\ ((Handled("GET") \/ Handled("PUT")) /\ DeletedId) => res.status = 404
    /\ (Handled("DELETE") /\ DeletedId /\ findById(pre, req.id) = {})
          => res.status = 404

\* C8 amended: the same, except that a PUT of the deleted identifier whose
\* body fails validation answers 400 "Validation failed"; no request on the
\* identifier answers 200 again.
C8_DeleteIsFinal ==
    /\ DeleteRemoves
    /\ DeletedStayGone
    /\ (Handled("GET") /\ DeletedId) => res = NotFound
    /\ (Handled("PUT") /\ DeletedId) =>
          IF StatusOnlyBody(req.body) \/ BodyValid(req.body)
            THEN res = NotFound
          ELSE res.status = 400 /\ res.error = "Validation failed"
    /\ (Handled("DELETE") /\ DeletedId /\ findById(pre, req.id) = {})
          => res = NotFound

C8_Witness ==
    /\ Handled("PUT")
    /\ DeletedId
    /\ bugs # {}
    /\ issued = MaxBugs
    /\ res.status = 404

\* C9: a stored record's createdAt never changes while the record exists,
\* and createdAt <= updatedAt.
C9_CreatedAtImmutable ==
    [][\A b \in bugs' :
          /\ b["createdAt"].v[1] <= b["updatedAt"].v[1]
          /\ \A a \in bugs : a["_id"] = b["_id"] => a["createdAt"] = b["createdAt"]]_vars

\* ------------------------------------------------------------------------
\* Properties of validateBugData
\* ------------------------------------------------------------------------
TitleMessages == {"Title is required and must be a string",
                  "Title cannot be empty",
                  "Title cannot exceed 100 characters"}
DescriptionMessages == {"Description is required and must be a string",
                        "Description cannot be empty",
                        "Description cannot exceed 1000 characters"}
StatusMessages == {"Status must be one of: open, in-progress, resolved, closed"}
PriorityMessages == {"Priority must be one of: low, medium, high, critical"}
ReporterMessages == {"Reporter is required and must be a string",
                     "Reporter cannot be empty"}
AssigneeMessages == {"Assignee must be a string"}
TagsMessages == {"Tags must be an array"}

\* "Tag at index i must be a string" for the indices of the input's tags
TagIndices ==
    IF "tags" \in DOMAIN input /\ input["tags"].t = "array"
      THEN 0..(Len(input["tags"].v) - 1)
    ELSE {}

IsTagMessage(m) == \E i \in TagIndices : m = TagError(i)
TagIndexOf(m) == CHOOSE i \in TagIndices : m = TagError(i)

\* The place of a message in the fixed order; 0 for a message that has none
MessageRank(m) ==
    CASE m \in TitleMessages -> 1
      [] m \in DescriptionMessages -> 2
      [] m \in StatusMessages -> 3
      [] m \in PriorityMessages -> 4
      [] m \in ReporterMessages -> 5
      [] m \in AssigneeMessages -> 6
      [] m \in TagsMessages -> 7
      [] IsTagMessage(m) -> 8
      [] OTHER -> 0

\* C10: validateBugData answers isValid exactly when its error list is
\* empty, and the errors come in the fixed order title, description, status,
\* priority, reporter, assignee, tags, the tag errors by ascending index.
C10_ValidIffNoErrorsInOrder ==
    validationRan =>
        /\ result.isValid <=> result.errors = <<>>
        /\ \A i \in 1..Len(result.errors) : MessageRank(result.errors[i]) # 0
        /\ \A i, j \in 1..Len(result.errors) :
              i < j =>
                 LET a == result.errors[i]
                     b == result.errors[j]
                 IN  \/ MessageRank(a) < MessageRank(b)
                     \/ /\ IsTagMessage(a) /\ IsTagMessage(b)
                        /\ TagIndexOf(a) < TagIndexOf(b)

C10_Witness ==
    /\ validationRan
    /\ ~result.isValid
    /\ {MessageRank(result.errors[i]) : i \in 1..Len(result.errors)}
          = {1, 2, 3, 4, 5, 6, 8}
    /\ Len(result.errors) = 9

\* The errors of the call that are among the given messages, in order
ErrorsAmong(messages) ==
    LET Among(m) == m \in messages
    IN  SelectSeq(result.errors, Among)

\* The input has the field, and its value is text
IsText(k) == k \in DOMAIN input /\ input[k].t = "string"

\* The one error the rules name for a required text field: messages is
\* <<missing or not text, empty after trim, over the limit>>, limit the
\* length limit (0 for none)
ClaimedTextErrors(k, messages, limit) ==
    IF ~IsText(k) THEN <<messages[1]>>
    ELSE IF trim(input[k].v) = <<>> THEN <<messages[2]>>
    ELSE IF limit > 0 /\ Len(input[k].v) > limit THEN <<messages[3]>>
    ELSE <<>>

\* C11: for title, description and reporter the validator reports at most
\* one error, by the first rule that applies: missing or not text, else
\* empty after trimming, else (title, description) longer than 100 / 1000
\* characters.
C11_FirstApplicableTextRule ==
    validationRan =>
        /\ ErrorsAmong(TitleMessages) =
              ClaimedTextErrors("title",
                  <<"Title is required and must be a string",
                    "Title cannot be empty",
                    "Title cannot exceed 100 characters">>, 100)
        /\ ErrorsAmong(DescriptionMessages) =
              ClaimedTextErrors("description",
                  <<"Description is required and must be a string",
                    "Description cannot be empty",
                    "Description cannot exceed 1000 characters">>, 1000)
        /\ ErrorsAmong(ReporterMessages) =
              ClaimedTextErrors("reporter",
                  <<"Reporter is required and must be a string",
                    "Reporter cannot be empty", "">>, 0)

\* The falsy values
Falsy == {Undefined, Null, Bool(FALSE), Num(0), Str(<<>>)}

LegalStatuses == {validStatuses[i] : i \in 1..Len(validStatuses)}
LegalPriorities == {validPriorities[i] : i \in 1..Len(validPriorities)}

\* C12: the validator reports exactly one status error when status is
\* present with a value outside the four legal ones, exactly one priority
\* error when priority is present, not falsy, and outside its four legal
\* values, and neither error otherwise.
C12_StatusAndPriorityErrors ==
    validationRan =>
        /\ Cardinality(LegalStatuses) = 4 /\ Cardinality(LegalPriorities) = 4
        /\ ErrorsAmong(StatusMessages) =
              IF "status" \in DOMAIN input /\ input["status"] \notin LegalStatuses
                THEN <<"Status must be one of: open, in-progress, resolved, closed">>
              ELSE <<>>
        /\ ErrorsAmong(PriorityMessages) =
              IF /\ "priority" \in DOMAIN input
                 /\ input["priority"] \notin Falsy
                 /\ input["priority"] \notin LegalPriorities
                THEN <<"Priority must be one of: low, medium, high, critical">>
              ELSE <<>>

C12_Witness ==
    /\ validationRan
    /\ "status" \in DOMAIN input /\ input["status"] \notin LegalStatuses
    /\ "priority" \in DOMAIN input /\ input["priority"] \in Falsy
    /\ Len(ErrorsAmong(StatusMessages)) = 1
    /\ ErrorsAmong(PriorityMessages) = <<>>

\* C13: the validator reports exactly one assignee error when assignee is
\* present and is not text, whatever its type or value, and none when it is
\* absent or text.
C13_NonTextAssigneeRejected ==
    validationRan =>
        ErrorsAmong(AssigneeMessages) =
            IF "assignee" \in DOMAIN input /\ input["assignee"].t # "string"
              THEN <<"Assignee must be a string">>
            ELSE <<>>

\* The 0-based indices of the elements of tags that are not text, ascending
NonTextIndices(tags) ==
    LET NotText(i) == tags[i + 1].t # "string"
    IN  SelectSeq([i \in 1..Len(tags) |-> i - 1], NotText)

\* The errors of the call about single tags, in order
TagErrorsReported ==
    SelectSeq(result.errors, IsTagMessage)

\* C14: when tags is present and is not a sequence the validator reports
\* exactly one "Tags must be an array" error (and the sanitizer returns that
\* value as it was); when it is a sequence the validator reports exactly one
\* "Tag at index i must be a string" for each index i of a non-text element,
\* by ascending index, and nothing for the text elements.
C14_TagsErrors ==
    /\ (validationRan /\ "tags" \in DOMAIN input) =>
          IF input["tags"].t # "array"
            THEN /\ ErrorsAmong(TagsMessages) = <<"Tags must be an array">>
                 /\ TagErrorsReported = <<>>
          ELSE /\ ErrorsAmong(TagsMessages) = <<>>
               /\ TagErrorsReported =
                     [j \in 1..Len(NonTextIndices(input["tags"].v)) |->
                         TagError(NonTextIndices(input["tags"].v)[j])]
    /\ (/\ called = "sanitizeBugData"
        /\ "tags" \in DOMAIN input
        /\ input["tags"].t # "array") =>
          /\ "tags" \in DOMAIN sanitized
          /\ sanitized["tags"] = input["tags"]

\* ------------------------------------------------------------------------
\* Properties of sanitizeBugData
\* ------------------------------------------------------------------------
TrimmedFields == {"title", "description", "reporter", "assignee"}

\* The step is a call of sanitizeBugData
SanitizeCall == called = "none" /\ called' = "sanitizeBugData"

\* Field k of the returned mapping is the trimmed text when it is one of the
\* four text fields and text, and the input's value otherwise
TrimmedOrSame(k) ==
    sanitized'[k] = IF k \in TrimmedFields /\ input[k].t = "string"
                      THEN Str(trim(input[k].v))
                    ELSE input[k]

\* C15 as claimed: sanitizeBugData returns a mapping of the same keys in which
\* title, description, reporter and assignee, where text, are trimmed and
\* every other field has its input value, and leaves its argument as it was.
C15_Original ==
    [][SanitizeCall =>
          /\ input' = input
          /\ DOMAIN sanitized' = DOMAIN input
          /\ \A k \in DOMAIN input : TrimmedOrSame(k)]_vars

\* C15 amended: the same, a tags field that is an ordered sequence excepted
\* (it is filtered and trimmed, and is still an ordered sequence).
C15_TrimsTextFieldsOnly ==
    [][SanitizeCall =>
          /\ input' = input
          /\ DOMAIN sanitized' = DOMAIN input
          /\ \A k \in DOMAIN input :
                IF k = "tags" /\ input[k].t = "array"
                  THEN sanitized'[k].t = "array"
                ELSE TrimmedOrSame(k)]_vars

C15_Witness ==
    /\ called = "sanitizeBugData"
    /\ \E k \in TrimmedFields : IsText(k) /\ sanitized[k] # input[k]
    /\ \E k \in TrimmedFields : k \in DOMAIN input /\ ~IsText(k) /\ sanitized[k] = input[k]
    /\ "tags" \in DOMAIN input /\ input["tags"].t = "array"
    /\ sanitized["tags"] # input["tags"]

IsTextValue(x) == x.t = "string"

\* The text elements of tags, each trimmed, those left empty removed
TrimmedTextElements(tags) ==
    LET texts == SelectSeq(tags, IsTextValue)
    IN  SelectSeq([i \in 1..Len(texts) |-> Str(trim(texts[i].v))], NonEmptyText)

\* C16: when the input's tags is an ordered sequence, the tags sanitizeBugData
\* returns are the text elements of the input, each trimmed, those empty
\* after trimming removed, in their order; none is a non-text value, empty,
\* or white space only.
C16_TagsFilteredAndTrimmed ==
    (/\ called = "sanitizeBugData"
     /\ "tags" \in DOMAIN input
     /\ input["tags"].t = "array") =>
        /\ sanitized["tags"].t = "array"
        /\ sanitized["tags"].v = TrimmedTextElements(input["tags"].v)
        /\ \A i \in 1..Len(sanitized["tags"].v) :
              LET tag == sanitized["tags"].v[i]
              IN  /\ tag.t = "string"
                  /\ tag.v # <<>>
                  /\ \E j \in 1..Len(tag.v) : tag.v[j] \notin WhiteSpace

C16_Witness ==
    /\ called = "sanitizeBugData"
    /\ "tags" \in DOMAIN input
    /\ input["tags"].t = "array"
    /\ \E i \in 1..Len(input["tags"].v) : input["tags"].v[i].t # "string"
    /\ \E i \in 1..Len(input["tags"].v) :
          /\ input["tags"].v[i].t = "string"
          /\ input["tags"].v[i].v # <<>>
          /\ trim(input["tags"].v[i].v) = <<>>
    /\ Len(sanitized["tags"].v) = 2
    /\ \A i \in 1..Len(input["tags"].v) : input["tags"].v[i] # sanitized["tags"].v[1]

\* ------------------------------------------------------------------------
\* Properties of isValidObjectId
\* ------------------------------------------------------------------------
Digits == {"0", "1", "2", "3", "4", "5", "6", "7", "8", "9"}
LowerAToF == {"a", "b", "c", "d", "e", "f"}
UpperAToF == {"A", "B", "C", "D", "E", "F"}

\* C17: isValidObjectId answers true exactly for the texts of 24 characters,
\* each in 0-9, a-f or A-F; any other length and any other character make it
\* false.
C17_TwentyFourHexCharacters ==
    called = "isValidObjectId" =>
        /\ idValid <=>
              /\ Len(token) = 24
              /\ \A i \in 1..Len(token) :
                    token[i] \in Digits \cup LowerAToF \cup UpperAToF
        /\ Len(token) \in {23, 25} => ~idValid

C17_Witness ==
    /\ called = "isValidObjectId"
    /\ idValid
    /\ \E i \in 1..Len(token) : token[i] \in LowerAToF
    /\ \E i \in 1..Len(token) : token[i] \in UpperAToF
    /\ \E i \in 1..Len(token) : token[i] \in Digits

\* ------------------------------------------------------------------------
\* Properties of GET /api/bugs
\* ------------------------------------------------------------------------
\* The number a query parameter spells, or the default when it is absent
QueryNumber(k, default) ==
    IF k \in DOMAIN req.query THEN DigitsValue(req.query[k].v, 0) ELSE default

\* The record passes the filters the query gives (an empty one is not given)
PassesFilters(b) ==
    \A k \in {"status", "priority"} :
        (k \in DOMAIN req.query /\ req.query[k].v # <<>>) => b[k] = req.query[k]

\* The list is the page of the records, taken by descending createdAt
IsPageOf(list, records, page, limit) ==
    \E order \in [1..Cardinality(records) -> records] :
        /\ \A i, j \in DOMAIN order : i < j =>
              /\ order[i] # order[j]
              /\ order[i]["createdAt"].v[1] >= order[j]["createdAt"].v[1]
        /\ Len(list) = Cardinality({i \in DOMAIN order :
                                       (page - 1) * limit < i /\ i <= page * limit})
        /\ \A i \in 1..Len(list) : list[i] = order[(page - 1) * limit + i]

\* C18: GET /bugs with page and limit positive integers (1 and 10 when
\* absent) answers 200 with only records that pass the status and priority
\* filters, at most limit of them, those from position (page-1)*limit on by
\* descending createdAt (of the records as the first query found them);
\* pagination echoes page and limit, total is the number of records that
\* pass the filters (as the second query counted them) and pages is
\* ceil(total / limit).
C18_ListFilteredAndPaged ==
    req.method = "GET /" =>
        LET page == QueryNumber("page", 1)
            limit == QueryNumber("limit", 10)
            total == Cardinality({b \in bugs : PassesFilters(b)})
        IN  /\ res.status = 200
            /\ \A i \in 1..Len(res.bugs) : res.bugs[i] \in pre /\ PassesFilters(res.bugs[i])
            /\ Len(res.bugs) <= limit
            /\ IsPageOf(res.bugs, {b \in pre : PassesFilters(b)}, page, limit)
            /\ res.pagination.page = page
            /\ res.pagination.limit = limit
            /\ res.pagination.total = total
            /\ res.pagination.pages * limit >= total
            /\ (res.pagination.pages - 1) * limit < total \/ res.pagination.pages = 0

C18_Witness ==
    /\ req.method = "GET /"
    /\ "status" \in DOMAIN req.query /\ req.query["status"].v # <<>>
    /\ QueryNumber("page", 1) = 2
    /\ QueryNumber("limit", 10) = 1
    /\ Len(res.bugs) = 1
    /\ res.pagination.total = 2
    /\ res.pagination.pages = 2
    /\ \E b \in pre : b["createdAt"].v[1] > res.bugs[1]["createdAt"].v[1]

\* ------------------------------------------------------------------------
\* Properties of the handlers when the collection fails
\* ------------------------------------------------------------------------
\* The operation of the collection the last request called has thrown
StoreFailed == dbCalls # <<>> /\ dbCalls[Len(dbCalls)] = "throws"

\* C19: when an operation of the collection throws during any of the five
\* routes, the request is answered 500 with the fixed body "Internal server
\* error" and nothing of the error; the process keeps running, and the
\* requests that follow are answered as they are when nothing has failed.
C19_StoreFailureCaught ==
    /\ running
    /\ StoreFailed =>
          /\ res.status = 500
          /\ res.error = "Internal server error"
          /\ DOMAIN res = {"status", "error", "details", "bug", "message"}
          /\ res.details = <<>> /\ res.bug = NoBug /\ res.message = ""
          /\ \A k \in DOMAIN StoreError : res.message # StoreError[k]
    /\ (everFailed /\ ~StoreFailed) =>
          /\ C1_PostCreatesAndGetReturns
          /\ C7_MalformedIdRejected
          /\ DeleteRemoves
          /\ C4_ValidationSkippedIffStatusOnly
          /\ C18_ListFilteredAndPaged

C19_Witness ==
    /\ everFailed
    /\ ~StoreFailed
    /\ Handled("GET")
    /\ res.status = 200
    /\ Cardinality(bugs) = 2

\* ------------------------------------------------------------------------
\* Properties of BugList
\* ------------------------------------------------------------------------
\* Text t occurs in text s, both taken in lower case
OccursIn(t, s) ==
    \E i \in 0..Len(s) :
        /\ i + Len(t) <= Len(s)
        /\ \A j \in 1..Len(t) : toLowerCase(t)[j] = toLowerCase(s)[i + j]

\* The record satisfies every criterion that is not empty
Shown(bug) ==
    /\ filter.status.v # <<>> => bug["status"] = filter.status
    /\ filter.priority.v # <<>> => bug["priority"] = filter.priority
    /\ filter.search.v # <<>> =>
          \/ \E k \in {"title", "description", "reporter"} :
                OccursIn(filter.search.v, bug[k].v)
          \/ "assignee" \in DOMAIN bug /\ OccursIn(filter.search.v, bug["assignee"].v)
          \/ /\ "tags" \in DOMAIN bug
             /\ \E i \in 1..Len(bug["tags"].v) :
                   OccursIn(filter.search.v, bug["tags"].v[i].v)

\* C20: after every filter change, clearing of the filters and replacement
\* of the source list, the displayed list is the subsequence of the source
\* list, in its order, of the records that satisfy every non-empty criterion
\* (status, priority, case-blind search over title, description, reporter,
\* assignee and tags); the source list is left as it was, and with no
\* criterion set every record is displayed.
C20_DisplayedIsFilteredSource ==
    /\ filteredBugs = SelectSeq(bugsProp, Shown)
    /\ bugsProp \in SourceLists
    /\ filter = NoFilter => filteredBugs = bugsProp

C20_Witness ==
    /\ Len(bugsProp) = 4
    /\ filter.status.v # <<>>
    /\ filter.search.v # <<>>
    /\ toLowerCase(filter.search.v) # filter.search.v
    /\ Len(filteredBugs) = 1
    /\ \E i \in 1..Len(bugsProp) :
          /\ bugsProp[i]["status"] = filter.status
          /\ bugsProp[i] # filteredBugs[1]

\* ------------------------------------------------------------------------
\* The order of the checks of PUT /api/bugs/:id
\* ------------------------------------------------------------------------
\* C24 as claimed: a PUT reports the first check that fails, in the order
\* identifier shape (400 "Invalid bug ID format"), body validation unless the
\* body contains only status (400 "Validation failed"), existence of the
\* record (404); it answers 200 when none fails.
C24_Original ==
    Handled("PUT") =>
        IF ~WellFormedId(req.id)
          THEN res.status = 400 /\ res.error = "Invalid bug ID format"
        ELSE IF ~OnlyStatusKey(req.body) /\ ~BodyValid(req.body)
          THEN res.status = 400 /\ res.error = "Validation failed"
        ELSE IF findById(pre, req.id) = {}
          THEN res.status = 404
        ELSE res.status = 200

\* C24 amended: the same order, the body being validated unless its only key
\* is status and the value of status is truthy: a PUT reports the identifier
\* error whatever the body, then the validation error whether or not the
\* record exists, then 404, and answers 200 when no check fails.
C24_ChecksInOrder ==
    Handled("PUT") =>
        IF ~WellFormedId(req.id)
          THEN res = InvalidId /\ bugs = pre
        ELSE IF ~StatusOnlyBody(req.body) /\ ~BodyValid(req.body)
          THEN /\ res.status = 400
               /\ res.error = "Validation failed"
               /\ res.details = validateBugData(sanitizeBugData(req.body)).errors
               /\ bugs = pre
        ELSE IF findById(pre, req.id) = {}
          THEN res = NotFound /\ bugs = pre
        ELSE res.status = 200 /\ res.error = ""

\* An invalid body on a well-formed identifier of no record reports 400
C24_Witness ==
    /\ Handled("PUT")
    /\ WellFormedId(req.id)
    /\ findById(pre, req.id) = {}
    /\ pre # {}
    /\ Cardinality(DOMAIN req.body) > 1
    /\ ~BodyValid(req.body)
    /\ res.status = 400
    /\ res.error = "Validation failed"

\* ------------------------------------------------------------------------
\* Messages the routes never send
\* ------------------------------------------------------------------------
\* The number of elements of the tags the request carries
BodyTagCount ==
    IF "tags" \in DOMAIN req.body /\ req.body["tags"].t = "array"
      THEN Len(req.body["tags"].v)
    ELSE 0

\* A message the validator has for an empty text or a non-text tag
UnsentMessage(m) ==
    \/ m \in {"Title cannot be empty", "Description cannot be empty",
              "Reporter cannot be empty"}
    \/ \E i \in 0..BodyTagCount : m = TagError(i)

\* The field of the request is a text of white space only
WhiteSpaceOnly(k) ==
    /\ k \in DOMAIN req.body
    /\ req.body[k].t = "string"
    /\ req.body[k].v # <<>>
    /\ trim(req.body[k].v) = <<>>

RequiredMessage(k) ==
    CASE k = "title" -> "Title is required and must be a string"
      [] k = "description" -> "Description is required and must be a string"
      [] k = "reporter" -> "Reporter is required and must be a string"

InDetails(m) == \E i \in 1..Len(res.details) : res.details[i] = m

\* C25: the details of a response to POST or PUT never hold "Title cannot be
\* empty", "Description cannot be empty", "Reporter cannot be empty" or a
\* "Tag at index i must be a string": a required field of white space only
\* is reported as "... is required and must be a string", and the non-text
\* elements of tags are dropped, not rejected.
C25_NoEmptyOrTagMessages ==
    (Handled("POST") \/ Handled("PUT")) =>
        /\ \A i \in 1..Len(res.details) : ~UnsentMessage(res.details[i])
        /\ \A k \in TextFields :
              (WhiteSpaceOnly(k) /\ (Handled("POST") \/ WellFormedId(req.id))) =>
                  /\ res.status = 400
                  /\ res.error = "Validation failed"
                  /\ InDetails(RequiredMessage(k))
        /\ (BodyTagCount > 0 /\ res.bug # NoBug) =>
              /\ res.bug["tags"].t = "array"
              /\ \A i \in 1..Len(res.bug["tags"].v) :
                    res.bug["tags"].v[i].t = "string"
              /\ Len(res.bug["tags"].v) =
                    Cardinality({i \in 1..BodyTagCount :
                        /\ req.body["tags"].v[i].t = "string"
                        /\ trim(req.body["tags"].v[i].v) # <<>>})

\* A title of white space only is reported as required
C25_Witness ==
    /\ Handled("POST")
    /\ WhiteSpaceOnly("title")
    /\ res.status = 400
    /\ res.details = <<"Title is required and must be a string">>

\* ------------------------------------------------------------------------
\* The list and its total when other requests are served in between
\* ------------------------------------------------------------------------
\* C26: in every response of GET /bugs the number of bugs returned is at
\* most pagination.total, and total is the number of matching records of the
\* collection as it was when the bugs were read, also when a POST or DELETE
\* is served between the find query and the count query.
C26_TotalOfTheStateRead ==
    req.method = "GET /" =>
        /\ Len(res.bugs) <= res.pagination.total
        /\ res.pagination.total = Cardinality({b \in pre : PassesFilters(b)})

\* ------------------------------------------------------------------------
\* The list states of BugList
\* ------------------------------------------------------------------------
\* An error message is set: the error prop is a text that is not empty
ErrorSet == errorProp.t = "string" /\ errorProp.v # <<>>

\* C21: BugList shows exactly one of the four list states: error, with the
\* Retry button, whenever an error message is set; otherwise loading
\* whenever isLoading is true; otherwise empty whenever the filtered list has
\* no record, headed "No bugs reported yet" when the source list is empty and
\* "No bugs match your filters" when it is not; otherwise the populated list
\* of the filtered bugs.
C21_OneOfFourListStates ==
    /\ view.testid \in {"bug-list-error", "bug-list-loading", "bug-list-empty", "bug-list"}
    /\ IF ErrorSet
         THEN view.testid = "bug-list-error" /\ view.retry /\ view.items = <<>>
       ELSE IF isLoading = Bool(TRUE)
         THEN view.testid = "bug-list-loading" /\ ~view.retry /\ view.items = <<>>
       ELSE IF filteredBugs = <<>>
         THEN /\ view.testid = "bug-list-empty"
              /\ ~view.retry
              /\ view.items = <<>>
              /\ view.heading = IF bugsProp = <<>> THEN "No bugs reported yet"
                                ELSE "No bugs match your filters"
       ELSE /\ view.testid = "bug-list"
            /\ ~view.retry
            /\ view.items = filteredBugs

\* The error is shown although the list is loading and has matching bugs
C21_Witness ==
    /\ ErrorSet
    /\ isLoading = Bool(TRUE)
    /\ filteredBugs # <<>>
    /\ filteredBugs # bugsProp
    /\ view.testid = "bug-list-error"
    /\ view.retry

\* ------------------------------------------------------------------------
\* sanitizeBugData applied twice
\* ------------------------------------------------------------------------
\* C30: sanitizeBugData is idempotent: applied to its own result it returns
\* that result, validateBugData answers the same on both, and a sanitized
\* mapping that is valid has an empty error list when validated again.
C30_SanitizeIdempotent ==
    called = "sanitizeBugData twice" =>
        /\ resanitized = sanitized
        /\ revalidated = result
        /\ result.isValid => revalidated.errors = <<>>

\* Padded texts and padded, empty and blank tags were sanitized twice, and
\* the result is valid
C30_Witness ==
    /\ called = "sanitizeBugData twice"
    /\ "tags" \in DOMAIN input
    /\ input["tags"].t = "array"
    /\ Len(resanitized["tags"].v) = 2
    /\ Len(input["tags"].v) = 4
    /\ Len(input["title"].v) = Len(resanitized["title"].v) + 4
    /\ revalidated.isValid

\* ------------------------------------------------------------------------
\* Properties of BugForm
\* ------------------------------------------------------------------------
FormKeys == {"title", "description", "status", "priority", "reporter", "assignee", "tags"}

NotBlank(text) == \E i \in 1..Len(text.v) : text.v[i] \notin WhiteSpace

\* The field of the form data fails the form's check: a required field is
\* blank, or the title or the description, as typed, is longer than its limit
FieldFails(k) ==
    CASE k = "title" -> ~NotBlank(formData[k]) \/ Len(formData[k].v) > MaxTitleLen
      [] k = "description" -> ~NotBlank(formData[k]) \/ Len(formData[k].v) > MaxDescriptionLen
      [] k = "reporter" -> ~NotBlank(formData[k])

ErrorShown(errs, k) == k \in DOMAIN errs /\ errs[k] # ""

\* What a submission does
Submitted ==
    IF \A k \in TextFields : ~FieldFails(k)
      THEN /\ onSubmitCalls' = <<formData>>
           /\ DOMAIN formData = FormKeys
           /\ \A k \in TextFields : ~ErrorShown(errors', k)
    ELSE /\ onSubmitCalls' = <<>>
         /\ \A k \in TextFields : FieldFails(k) <=> ErrorShown(errors', k)

\* C22: a submission calls onSubmit, once and with the current form data
\* (title, description, status, priority, reporter, assignee, tags), if and
\* only if the title is not blank and at most 100 characters long, the
\* description is not blank and at most 1000 characters long (both lengths
\* as typed) and the reporter is not blank; otherwise onSubmit is not called
\* and an error message is recorded for exactly the failing fields; editing a
\* field clears its error message and calls nothing.
C22_SubmitIffFormValid ==
    [][/\ handleSubmit => Submitted
       /\ \A name \in FormKeys \ {"tags"} :
             (\E value \in FieldValues(name) : handleInputChange(name, value)) =>
                 /\ ~ErrorShown(errors', name)
                 /\ onSubmitCalls' = <<>>
                 /\ \A k \in TextFields \ {name} :
                       ErrorShown(errors', k) <=> ErrorShown(errors, k)]_vars

\* A new bug whose title and description are at their limits was submitted
C22_Witness ==
    /\ initialData = Null
    /\ onSubmitCalls = <<formData>>
    /\ Len(formData["title"].v) = MaxTitleLen
    /\ formData["title"].v[1] \in WhiteSpace
    /\ Len(formData["description"].v) = MaxDescriptionLen
    /\ formData["tags"].v # <<>>
    /\ errors = NoErrors

\* The tags of the form
FormTags == formData["tags"].v

NoRepeat(tags) == \A i, j \in 1..Len(tags) : tags[i] = tags[j] => i = j

\* The form started from a list of tags without a repeated tag
StartedWithoutRepeat == NoRepeat(initialFormData(initialData)["tags"].v)

\* What handleAddTag does, by the button or by Enter
TagAdded ==
    LET tag == trim(tagInput)
    IN  IF tag # <<>> /\ \A i \in 1..Len(FormTags) : FormTags[i] # Str(tag)
          THEN /\ formData' = [formData EXCEPT !["tags"] = Arr(Append(FormTags, Str(tag)))]
               /\ tagInput' = <<>>
        ELSE formData' = formData /\ tagInput' = tagInput

\* What handleRemoveTag does
TagRemoved(tag) ==
    /\ Len(formData'["tags"].v) = Len(FormTags) - 1
    /\ \E i \in 1..Len(FormTags) :
          /\ FormTags[i] = Str(tag)
          /\ formData'["tags"].v = SubSeq(FormTags, 1, i - 1)
                                   \o SubSeq(FormTags, i + 1, Len(FormTags))
    /\ \A k \in FormKeys \ {"tags"} : formData'[k] = formData[k]
    /\ tagInput' = tagInput

\* C23: on a form that starts from a list of tags without a repeated tag,
\* after every sequence of additions and removals no tag is repeated and no
\* tag is empty or blank; an addition appends the trimmed input and clears
\* the input if and only if the trimmed input is not empty and not yet in the
\* list, and otherwise changes nothing; a removal deletes the named tag and
\* keeps the others in their order.
C23_TagsStayDistinctAndNotBlank ==
    /\ [](StartedWithoutRepeat =>
            /\ NoRepeat(FormTags)
            /\ \A i \in 1..Len(FormTags) :
                  FormTags[i].t = "string" /\ NotBlank(FormTags[i]))
    /\ [][StartedWithoutRepeat =>
            /\ (handleAddTag \/ handleTagKeyPress("Enter")) => TagAdded
            /\ \A tag \in {<<"t">>, <<"u">>} : handleRemoveTag(tag) => TagRemoved(tag)]_vars

\* Two tags were added to a new bug, the second from a padded input
C23_Witness ==
    /\ initialData = Null
    /\ FormTags = <<Str(<<"u">>), Str(<<"t">>)>>
    /\ tagInput = <<>>

ServerAcceptsWhatFormRefuses ==
    /\ onSubmitCalls = <<>>
    /\ DOMAIN errors = {"title"}
    /\ errors["title"] = "Title cannot exceed 100 characters"
    /\ validateBugData(sanitizeBugData(viaJSON(formData))).isValid

\* ------------------------------------------------------------------------
\* Properties of the App component
\* ------------------------------------------------------------------------
\* C27: under every interleaving of the requests of the page and of the
\* arrival of their responses, no two entries of the list of the page have
\* the same _id.
C27_NoDuplicateIds ==
    \A i \in 1..Len(appBugs), j \in 1..Len(appBugs) :
        i # j => appBugs[i]["_id"] # appBugs[j]["_id"]

\* The call ends in this step
Ends(call) == call \in pending /\ pending' = pending \ {call}

\* The call ends in this step and it failed: no response came, or one with
\* a status outside 200..299
Fails(call) ==
    /\ Ends(call)
    /\ call.phase = "answered" => call.response.status \notin 200..299

\* The call ends in this step and it succeeded
Succeeds(call) ==
    /\ Ends(call)
    /\ call.phase = "answered"
    /\ call.response.status \in 200..299

\* C29: a call that fails leaves the list of the page as it was; a failed
\* create or update also leaves the form as it was, open when it was open
\* and on the same record; a failed load sets the error message and ends
\* the loading; a load that succeeds leaves no error message and ends the
\* loading.
C29_FailedRequestKeepsList ==
    [][\A call \in pending :
          /\ Fails(call) =>
                /\ appBugs' = appBugs
                /\ call.kind \in {"createBug", "updateBug"} =>
                      /\ showForm' = showForm
                      /\ editingBug' = editingBug
                /\ call.kind = "getBugs" =>
                      /\ error' = LoadFailedMessage
                      /\ loading /\ ~loading'
          /\ (Succeeds(call) /\ call.kind = "getBugs") =>
                /\ error' = Null
                /\ loading /\ ~loading']_vars

\* A load failed while the page showed a list with a record, which stayed;
\* the error message is set and the loading is over
C29_Witness ==
    /\ error = LoadFailedMessage
    /\ ~loading
    /\ Len(appBugs) > 0
    /\ bugs = {}
    /\ showForm
====
